---- MODULE Spec2Model ----
(***************************************************************************)
(* Model of ts-to-proptypes: the type classifier (normalizePropType), the  *)
(* prop extractor (extractPropsFromParameter) and the declaration locator  *)
(* (parseComponentDeclaration / parseComponents).                          *)
(*                                                                         *)
(* A ts-morph Type is a record of the answers to the queries the code      *)
(* makes: getText(), isUnion(), getUnionTypes(), isUndefined(), ...        *)
(* A text is a sequence of tokens; the tokens " | ", "undefined" and "[]"  *)
(* are never part of a longer token, so the string tests of the code       *)
(* (===, includes, split, endsWith) are decided on the token sequence.     *)
(***************************************************************************)
EXTENDS Integers, Sequences, FiniteSets, TLC

VARIABLES
    mode,        \* which component is exercised: "classify", "extract", "parse"
    pc,          \* position of the run: "input" before the call, "done" after
    ty,          \* classifier: the Type handed to normalizePropType
    result,      \* classifier: the value returned (or the thrown marker)
    level,       \* classifier: the level of the shared logger
    logged,      \* classifier: the lines the call wrote to the console
    tree,        \* extractor: the member graph of the root type
    props,       \* extractor: the ParsedProp[] returned
    walk,        \* extractor: the member symbol each entry of props came from
    unit,        \* locator: the source file (path and export entries)
    calls,       \* locator: the parseComponentDeclaration calls made, in order
    components,  \* locator: what parseComponents returned or threw
    componentInfo, \* generator: the ComponentInfo handed to generateComponentString
    validators,  \* generator: what createPropValidator returned for each prop
    text,        \* generator: the string generateComponentString returned
    project,     \* writer: the source files of the ts-morph Project
    options,     \* writer: the WriteOptions of the run
    writes,      \* writer: the createSourceFile calls made, with their results
    sourceFiles, \* cli: the source files main loops over
    fileIndex,   \* cli: position of the loop, the next source file
    fileResults, \* cli: the FileProcessingResult of each file processed
    totalComponents,      \* cli: main's tally of components found
    totalGeneratedFiles,  \* cli: main's tally of declarations generated
    exitCode,    \* cli: -1 while main runs, then 0, or 1 after a fatal error
    filePaths,   \* formatter: the paths handed to formatWithPrettier
    fsEnv,       \* formatter: whether prettier loads, its config, each file's fate
    formatIndex, \* formatter: position of the loop over filePaths
    results,     \* formatter: the FormattingResult of each file processed
    fsReads,     \* formatter: the fs.readFile calls made, in order
    fsWrites,    \* formatter: the fs.writeFile calls made, in order
    formatted,   \* formatter: what formatWithPrettier returned
    refs,        \* walker: for each member, the member whose type it names again
    pending      \* walker: the extractPropsFromType calls not yet made

classifierVars == <<ty, result, level, logged>>
extractorVars == <<tree, props, walk>>
locatorVars == <<unit, calls, components>>
generatorVars == <<componentInfo, validators, text>>
writerVars == <<project, options, writes>>
cliVars ==
    <<sourceFiles, fileIndex, fileResults, totalComponents, totalGeneratedFiles,
      exitCode>>

formatterVars ==
    <<filePaths, fsEnv, formatIndex, results, fsReads, fsWrites, formatted>>

walkerVars == <<refs, pending>>

vars ==
    <<mode, pc, classifierVars, extractorVars, locatorVars, generatorVars,
      writerVars, cliVars, formatterVars, walkerVars>>

\* ------------------------------------------------------------------ bounds
\* Largest number of members of a generated union type.
MaxUnion == 3
\* Largest number of members (at all depths) below a generated root type.
MaxNodes == 3
\* Largest number of exported declarations of a generated source file.
MaxDecls == 2
\* Largest number of props of a ComponentInfo handed to the generator.
MaxProps == 2
\* Largest number of createSourceFile calls made on one Project.
MaxCalls == 2
\* Largest number of source files main loops over.
MaxFiles == 2
\* Largest number of paths handed to formatWithPrettier.
MaxPaths == 2
\* Largest number of members of a member graph walked call by call.
MaxMembers == 2
\* Largest number of props a walk over a member graph collects before it is
\* left unfinished.
MaxEmitted == 6

\* ------------------------------------------------------- NormalizedPropType
\* One record shape for the seven variants; unused fields are empty.
Norm(k, n, vs, ts) == [kind |-> k, name |-> n, values |-> vs, types |-> ts]
Primitive(n) == Norm("primitive", n, <<>>, <<>>)
ArrayT == Norm("array", "", <<>>, <<>>)
ObjectT == Norm("object", "", <<>>, <<>>)
FunctionT == Norm("function", "", <<>>, <<>>)
AnyT == Norm("any", "", <<>>, <<>>)
OneOf(vs) == Norm("oneOf", "", vs, <<>>)
OneOfType(ts) == Norm("oneOfType", "", <<>>, ts)
\* handleOptionalType's null, and an exception leaving the call.
Null == Norm("null", "", <<>>, <<>>)
Thrown == Norm("throw", "", <<>>, <<>>)
NoResult == Norm("none", "", <<>>, <<>>)

Kinds == {"primitive", "array", "object", "function", "oneOf", "oneOfType", "any"}

\* ------------------------------------------------------------ literal values
\* What getLiteralValue() yields: a string, a number, a boolean, undefined,
\* an object (a bigint literal's PseudoBigInt), or an exception.
Val(k, s, n) == [k |-> k, s |-> s, n |-> n]
StrVal(s) == Val("string", s, 0)
NumVal(n) == Val("number", "", n)
UndefVal == Val("undefined", "", 0)
ObjVal == Val("object", "", 0)
ThrowVal == Val("throw", "", 0)
\* A boolean value: n is 1 for true and 0 for false.
BoolVal(b) == Val("boolean", "", IF b THEN 1 ELSE 0)

\* --------------------------------------------------------------------- Type
BaseType ==
    [text |-> <<>>, isUnion |-> FALSE, unionTypes |-> <<>>,
     isUndefined |-> FALSE, isString |-> FALSE, isNumber |-> FALSE,
     isStringLiteral |-> FALSE, isNumberLiteral |-> FALSE,
     isLiteral |-> FALSE, literalValue |-> UndefVal,
     isArray |-> FALSE, isTuple |-> FALSE, callSignatures |-> 0,
     isObject |-> FALSE]

TUndefined == [BaseType EXCEPT !.text = <<"undefined">>, !.isUndefined = TRUE]
TNull == [BaseType EXCEPT !.text = <<"null">>]
TString == [BaseType EXCEPT !.text = <<"string">>, !.isString = TRUE]
TNumber == [BaseType EXCEPT !.text = <<"number">>, !.isNumber = TRUE]
\* ts-morph: isLiteral() is true of true/false, whose compiler type has no value.
TTrue == [BaseType EXCEPT !.text = <<"true">>, !.isLiteral = TRUE]
TFalse == [BaseType EXCEPT !.text = <<"false">>, !.isLiteral = TRUE]
\* The checker represents boolean as the union false | true, printed "boolean".
TBoolean ==
    [BaseType EXCEPT !.text = <<"boolean">>, !.isUnion = TRUE,
                     !.unionTypes = <<TFalse, TTrue>>]
StrLit(s) ==
    [BaseType EXCEPT !.text = <<"\"", s, "\"">>, !.isStringLiteral = TRUE,
                     !.isLiteral = TRUE, !.literalValue = StrVal(s)]
\* The string literal type "x | undefined".
TStrLitBar ==
    [BaseType EXCEPT !.text = <<"\"", "x", " | ", "undefined", "\"">>,
                     !.isStringLiteral = TRUE, !.isLiteral = TRUE,
                     !.literalValue = StrVal("x | undefined")]
NumLit(n, t) ==
    [BaseType EXCEPT !.text = <<t>>, !.isNumberLiteral = TRUE,
                     !.isLiteral = TRUE, !.literalValue = NumVal(n)]
\* A bigint literal: a literal whose value is an object.
TBigIntLit ==
    [BaseType EXCEPT !.text = <<"1n">>, !.isLiteral = TRUE,
                     !.literalValue = ObjVal]
\* A literal whose value query throws (the case the try/catch guards).
TThrowLit ==
    [BaseType EXCEPT !.text = <<"E.A">>, !.isLiteral = TRUE,
                     !.literalValue = ThrowVal]
TStringArray ==
    [BaseType EXCEPT !.text = <<"string", "[]">>, !.isArray = TRUE,
                     !.isObject = TRUE]
\* (string | undefined)[]
TOptArray ==
    [BaseType EXCEPT !.text = <<"(", "string", " | ", "undefined", ")", "[]">>,
                     !.isArray = TRUE, !.isObject = TRUE]
TTuple ==
    [BaseType EXCEPT !.text = <<"[string, number]">>, !.isTuple = TRUE,
                     !.isObject = TRUE]
TFunction ==
    [BaseType EXCEPT !.text = <<"() => void">>, !.callSignatures = 1,
                     !.isObject = TRUE]
\* (x: string | undefined) => void
TOptParamFunction ==
    [BaseType EXCEPT !.text = <<"(x: ", "string", " | ", "undefined", ") => void">>,
                     !.callSignatures = 1, !.isObject = TRUE]
TObject == [BaseType EXCEPT !.text = <<"{ id: number; }">>, !.isObject = TRUE]
TAny == [BaseType EXCEPT !.text = <<"any">>]

\* The types that can be members of a union (the checker flattens unions and
\* keeps boolean as its two literals), in a fixed enumeration.
MemberSeq ==
    <<TUndefined, TNull, TString, TNumber, TTrue, TFalse, StrLit("a"),
      StrLit("b"), TStrLitBar, NumLit(1, "1"), NumLit(2, "2"), TBigIntLit,
      TThrowLit, TStringArray, TFunction, TObject>>

MemberTypes == {MemberSeq[i] : i \in 1..Len(MemberSeq)}

\* The types that are not unions of MemberTypes.
SingleTypes ==
    MemberTypes \cup {TBoolean, TAny, TOptArray, TTuple, TOptParamFunction}

\* ------------------------------------------------------------------ unions
IsNullish(t) == t.isUndefined \/ t = TNull

\* A function type is parenthesised when printed as a union member.
MemberText(t) ==
    IF t.callSignatures > 0 THEN <<"(">> \o t.text \o <<")">> ELSE t.text

RECURSIVE JoinBar(_)
\* The texts of a sequence of parts joined by " | ".
JoinBar(parts) ==
    IF Len(parts) = 0 THEN <<>>
    ELSE IF Len(parts) = 1 THEN parts[1]
    ELSE parts[1] \o <<" | ">> \o JoinBar(Tail(parts))

HasMember(u, t) == \E i \in 1..Len(u) : u[i] = t

RECURSIVE PrintParts(_, _)
\* The printed parts of the non-nullish members, in member order; a union
\* holding both true and false prints them once, as boolean.
PrintParts(u, all) ==
    IF Len(u) = 0 THEN <<>>
    ELSE LET t == u[1]
             both == HasMember(all, TTrue) /\ HasMember(all, TFalse)
             firstBool == \A j \in 1..(Len(all) - Len(u)) :
                              all[j] # TTrue /\ all[j] # TFalse
         IN  IF IsNullish(t) THEN PrintParts(Tail(u), all)
             ELSE IF both /\ (t = TTrue \/ t = TFalse)
                  THEN (IF firstBool THEN <<(<<"boolean">>)>> ELSE <<>>)
                       \o PrintParts(Tail(u), all)
             ELSE <<MemberText(t)>> \o PrintParts(Tail(u), all)

\* typeToString of a union: the members, then null, then undefined.
PrintUnion(u) ==
    JoinBar(PrintParts(u, u)
            \o (IF HasMember(u, TNull) THEN <<(<<"null">>)>> ELSE <<>>)
            \o (IF HasMember(u, TUndefined) THEN <<(<<"undefined">>)>> ELSE <<>>))

\* The text of a union: printed member by member, or through a type alias
\* (type Alias = ...; x: Alias, x?: Alias).
UnionTexts(u) ==
    {PrintUnion(u), <<"Alias">>}
    \cup (IF HasMember(u, TUndefined) /\ Len(u) > 2
          THEN {<<"Alias", " | ", "undefined">>} ELSE {})

\* Member lists the checker can produce: distinct members, and no literal
\* beside the primitive that subsumes it.
IsMemberList(u) ==
    /\ \A i, j \in 1..Len(u) : i # j => u[i] # u[j]
    /\ ~(HasMember(u, TString) /\ \E i \in 1..Len(u) : u[i].isStringLiteral)
    /\ ~(HasMember(u, TNumber) /\ \E i \in 1..Len(u) : u[i].isNumberLiteral)

\* The member lists of at most MaxUnion members, chosen by index.
MemberLists ==
    {[i \in 1..Len(ix) |-> MemberSeq[ix[i]]] :
        ix \in {jx \in UNION {[1..n -> 1..Len(MemberSeq)] : n \in 2..MaxUnion} :
                   /\ \A i, j \in 1..Len(jx) : i # j => jx[i] # jx[j]
                   /\ IsMemberList([i \in 1..Len(jx) |-> MemberSeq[jx[i]]])}}

UnionOf(u, txt) ==
    [BaseType EXCEPT !.text = txt, !.isUnion = TRUE, !.unionTypes = u]

\* Every Type handed to the classifier: a single type or a union.
IsInput(t) ==
    \/ t \in SingleTypes
    \/ \E u \in MemberLists : \E txt \in UnionTexts(u) : t = UnionOf(u, txt)

\* ------------------------------------------------------------ string tests
\* typeText.includes(' | undefined') || typeText.includes('|undefined')
IncludesBarUndefined(txt) ==
    \/ \E i \in 1..(Len(txt) - 1) : txt[i] = " | " /\ txt[i + 1] = "undefined"
    \/ \E i \in 1..Len(txt) : txt[i] = "|undefined"

\* Position of the first match of /\s*\|\s*undefined/.
FirstBarUndefined(txt) ==
    CHOOSE i \in 1..Len(txt) :
        /\ \/ (i < Len(txt) /\ txt[i] = " | " /\ txt[i + 1] = "undefined")
           \/ txt[i] = "|undefined"
        /\ \A j \in 1..(i - 1) :
               ~(\/ (txt[j] = " | " /\ txt[j + 1] = "undefined")
                 \/ txt[j] = "|undefined")

\* typeText.split(/\s*\|\s*undefined/)[0]
BaseTypeText(txt) == SubSeq(txt, 1, FirstBarUndefined(txt) - 1)

\* typeText.split(' | ')[0]
FirstBarPart(txt) ==
    IF \E i \in 1..Len(txt) : txt[i] = " | "
    THEN SubSeq(txt, 1, (CHOOSE i \in 1..Len(txt) :
                            txt[i] = " | " /\ \A j \in 1..(i - 1) : txt[j] # " | ") - 1)
    ELSE txt

\* typeText.indexOf('undefined') > 0
UndefinedAfterStart(txt) == \E i \in 2..Len(txt) : txt[i] = "undefined"

EndsWithBrackets(txt) == Len(txt) > 0 /\ txt[Len(txt)] = "[]"

TrueFalseText(txt) ==
    txt = <<"true", " | ", "false">> \/ txt = <<"false", " | ", "true">>

\* ---------------------------------------------------- normalizePropType.ts
hasUndefinedType(unionTypes) ==
    \E i \in 1..Len(unionTypes) : unionTypes[i].isUndefined

isBooleanType(typeText) == typeText = <<"boolean">> \/ typeText = <<"Boolean">>

\* isTrueFalseUnion comparing against capitalised texts.
isTrueFalseUnion_capitalised(unionTypes) ==
    /\ Len(unionTypes) = 2
    /\ \E i \in 1..2 : unionTypes[i].text = <<"True">>
    /\ \E i \in 1..2 : unionTypes[i].text = <<"False">>

isTrueFalseUnion(unionTypes) ==
    /\ Len(unionTypes) = 2
    /\ \E i \in 1..2 : unionTypes[i].text = <<"true">>
    /\ \E i \in 1..2 : unionTypes[i].text = <<"false">>

\* unionTypes.filter((t) => !t.isUndefined())
NonUndefined(unionTypes) == SelectSeq(unionTypes, LAMBDA t : ~t.isUndefined)

Literals(all, vs, th) == [isAllLiterals |-> all, values |-> vs, thrown |-> th]

PushableValue(v) == v.k \in {"string", "number", "boolean"}

RECURSIVE LiteralLoop_nocatch(_, _)
\* The loop without the try/catch around the literal-value query.
LiteralLoop_nocatch(rest, literalValues) ==
    IF Len(rest) = 0 THEN Literals(TRUE, literalValues, FALSE)
    ELSE LET unionType == rest[1]
             value == unionType.literalValue
         IN  IF unionType.isUndefined
             THEN LiteralLoop_nocatch(Tail(rest), literalValues)
             ELSE IF unionType.isStringLiteral \/ unionType.isNumberLiteral
                     \/ unionType.isLiteral
             THEN IF value.k = "throw"
                  THEN Literals(FALSE, <<>>, TRUE)
                  ELSE IF unionType.isStringLiteral \/ unionType.isNumberLiteral
                          \/ PushableValue(value)
                  THEN LiteralLoop_nocatch(Tail(rest), Append(literalValues, value))
                  ELSE Literals(FALSE, <<>>, FALSE)
             ELSE Literals(FALSE, <<>>, FALSE)

RECURSIVE LiteralLoop_unshift(_, _)
\* The loop with unshift in place of push.
LiteralLoop_unshift(rest, literalValues) ==
    IF Len(rest) = 0 THEN Literals(TRUE, literalValues, FALSE)
    ELSE LET unionType == rest[1]
             value == unionType.literalValue
         IN  IF unionType.isUndefined
             THEN LiteralLoop_unshift(Tail(rest), literalValues)
             ELSE IF unionType.isStringLiteral \/ unionType.isNumberLiteral
             THEN IF value.k = "throw"
                  THEN Literals(FALSE, <<>>, TRUE)
                  ELSE LiteralLoop_unshift(Tail(rest), <<value>> \o literalValues)
             ELSE IF unionType.isLiteral /\ value.k # "throw" /\ PushableValue(value)
             THEN LiteralLoop_unshift(Tail(rest), <<value>> \o literalValues)
             ELSE Literals(FALSE, <<>>, FALSE)

RECURSIVE LiteralLoop(_, _)
\* The for loop of extractLiteralValues over the members not yet visited.
LiteralLoop(rest, literalValues) ==
    IF Len(rest) = 0 THEN Literals(TRUE, literalValues, FALSE)
    ELSE LET unionType == rest[1]
             value == unionType.literalValue
         IN  IF unionType.isUndefined
             THEN LiteralLoop(Tail(rest), literalValues)
             ELSE IF unionType.isStringLiteral \/ unionType.isNumberLiteral
             THEN IF value.k = "throw"
                  THEN Literals(FALSE, <<>>, TRUE)
                  ELSE LiteralLoop(Tail(rest), Append(literalValues, value))
             ELSE IF unionType.isLiteral /\ value.k # "throw" /\ PushableValue(value)
             THEN LiteralLoop(Tail(rest), Append(literalValues, value))
             ELSE Literals(FALSE, <<>>, FALSE)

extractLiteralValues(unionTypes) ==
    IF isTrueFalseUnion(unionTypes)
    THEN Literals(FALSE, <<>>, FALSE)
    ELSE LiteralLoop(unionTypes, <<>>)

normalizeByTypeText(typeText) ==
    IF isBooleanType(typeText) THEN Primitive("boolean")
    ELSE IF TrueFalseText(typeText) THEN Primitive("boolean")
    ELSE IF typeText = <<"string">> \/ typeText = <<"String">> THEN Primitive("string")
    ELSE IF typeText = <<"number">> \/ typeText = <<"Number">> THEN Primitive("number")
    ELSE IF EndsWithBrackets(typeText) THEN ArrayT
    ELSE AnyT

\* The fallback of handleOptionalType on the text alone.
OptionalByText(typeText) ==
    IF IncludesBarUndefined(typeText)
    THEN LET baseTypeText == BaseTypeText(typeText)
         IN  IF isBooleanType(baseTypeText) THEN Primitive("boolean")
             ELSE IF TrueFalseText(baseTypeText) THEN Primitive("boolean")
             ELSE normalizeByTypeText(baseTypeText)
    ELSE Null

\* The "special case for the unit test": the text is exactly string | undefined.
IsPlainOptionalString_spaceless(typeText) ==
    /\ typeText = <<"string", "|undefined">>
    /\ FirstBarPart(typeText) = <<"string">>
    /\ UndefinedAfterStart(typeText)

IsPlainOptionalString(typeText) ==
    /\ typeText = <<"string", " | ", "undefined">>
    /\ FirstBarPart(typeText) = <<"string">>
    /\ UndefinedAfterStart(typeText)

RECURSIVE normalizePropType(_)
RECURSIVE handleOptionalType(_, _)
RECURSIVE normalizeUnionType(_)

handleOptionalType(type, typeText) ==
    IF IsPlainOptionalString(typeText)
    THEN OneOfType(<<Primitive("string"), AnyT>>)
    ELSE IF type.isUnion /\ hasUndefinedType(type.unionTypes)
    THEN LET nonUndefinedTypes == NonUndefined(type.unionTypes)
         IN  IF Len(nonUndefinedTypes) = 2 /\ isTrueFalseUnion(nonUndefinedTypes)
             THEN Primitive("boolean")
             ELSE IF Len(nonUndefinedTypes) = 1
             THEN LET nonUndefinedType == nonUndefinedTypes[1]
                      nonUndefinedTypeText == nonUndefinedType.text
                  IN  IF isBooleanType(nonUndefinedTypeText) THEN Primitive("boolean")
                      ELSE IF TrueFalseText(nonUndefinedTypeText) THEN Primitive("boolean")
                      ELSE IF nonUndefinedType.isString THEN Primitive("string")
                      ELSE IF nonUndefinedType.isNumber THEN Primitive("number")
                      ELSE normalizePropType(nonUndefinedType)
             ELSE IF Len(nonUndefinedTypes) > 1
             THEN IF isTrueFalseUnion(nonUndefinedTypes)
                  THEN Primitive("boolean")
                  ELSE LET lits == extractLiteralValues(nonUndefinedTypes)
                       IN  IF lits.thrown THEN Thrown
                           ELSE IF lits.isAllLiterals /\ Len(lits.values) > 0
                           THEN OneOf(lits.values)
                           ELSE OptionalByText(typeText)
             ELSE OptionalByText(typeText)
    ELSE OptionalByText(typeText)

normalizeUnionType(type) ==
    LET unionTypes == type.unionTypes
        nonUndefinedTypes == NonUndefined(unionTypes)
        lits == extractLiteralValues(unionTypes)
        types == [i \in 1..Len(nonUndefinedTypes) |->
                      normalizePropType(nonUndefinedTypes[i])]
        rest ==
            IF lits.thrown THEN Thrown
            ELSE IF lits.isAllLiterals /\ Len(lits.values) > 0
            THEN OneOf(lits.values)
            ELSE IF \E i \in 1..Len(types) : types[i] = Thrown THEN Thrown
            ELSE OneOfType(types)
    IN  IF isTrueFalseUnion(unionTypes) THEN Primitive("boolean")
        ELSE IF hasUndefinedType(unionTypes)
        THEN IF Len(nonUndefinedTypes) = 1
             THEN LET nonUndefinedType == nonUndefinedTypes[1]
                      nonUndefinedTypeText == nonUndefinedType.text
                  IN  IF isBooleanType(nonUndefinedTypeText) THEN Primitive("boolean")
                      ELSE IF TrueFalseText(nonUndefinedTypeText) THEN Primitive("boolean")
                      ELSE normalizePropType(nonUndefinedType)
             ELSE IF Len(nonUndefinedTypes) = 2 /\ isTrueFalseUnion(nonUndefinedTypes)
             THEN Primitive("boolean")
             ELSE rest
        ELSE rest

normalizePropType(type) ==
    LET typeText == type.text
        optionalType == handleOptionalType(type, typeText)
    IN  IF optionalType # Null THEN optionalType
        ELSE IF isBooleanType(typeText) THEN Primitive("boolean")
        ELSE IF typeText = <<"string">> \/ type.isString THEN Primitive("string")
        ELSE IF typeText = <<"number">> \/ type.isNumber THEN Primitive("number")
        ELSE IF TrueFalseText(typeText) THEN Primitive("boolean")
        ELSE IF type.isUnion THEN normalizeUnionType(type)
        ELSE IF type.isArray \/ type.isTuple \/ EndsWithBrackets(typeText) THEN ArrayT
        ELSE IF type.callSignatures > 0 THEN FunctionT
        ELSE IF type.isObject THEN ObjectT
        ELSE AnyT

\* ------------------------------------------------------------------ logger
\* enum LogLevel
LogLevel == [SILENT |-> 0, ERROR |-> 1, WARN |-> 2, INFO |-> 3, DEBUG |-> 4]

\* Logger.debug for the messages of one call: what console.debug receives.
debug(lvl, messages) == IF lvl >= LogLevel.DEBUG THEN messages ELSE <<>>

\* The type handleOptionalType hands back to normalizePropType (return
\* normalizePropType(nonUndefinedType)), as a sequence of none or one.
OptionalRecursion(type, typeText) ==
    IF IsPlainOptionalString(typeText) THEN <<>>
    ELSE IF type.isUnion /\ hasUndefinedType(type.unionTypes)
    THEN LET nonUndefinedTypes == NonUndefined(type.unionTypes)
         IN  IF Len(nonUndefinedTypes) = 2 /\ isTrueFalseUnion(nonUndefinedTypes)
             THEN <<>>
             ELSE IF /\ Len(nonUndefinedTypes) = 1
                     /\ ~isBooleanType(nonUndefinedTypes[1].text)
                     /\ ~TrueFalseText(nonUndefinedTypes[1].text)
                     /\ ~nonUndefinedTypes[1].isString
                     /\ ~nonUndefinedTypes[1].isNumber
             THEN nonUndefinedTypes
             ELSE <<>>
    ELSE <<>>

\* The types normalizeUnionType calls normalizePropType on, in order.
UnionRecursion(type) ==
    LET unionTypes == type.unionTypes
        nonUndefinedTypes == NonUndefined(unionTypes)
        lits == extractLiteralValues(unionTypes)
    IN  IF isTrueFalseUnion(unionTypes) THEN <<>>
        ELSE IF hasUndefinedType(unionTypes) /\ Len(nonUndefinedTypes) = 1
        THEN IF \/ isBooleanType(nonUndefinedTypes[1].text)
                \/ TrueFalseText(nonUndefinedTypes[1].text)
             THEN <<>>
             ELSE nonUndefinedTypes
        ELSE IF /\ hasUndefinedType(unionTypes)
                /\ Len(nonUndefinedTypes) = 2
                /\ isTrueFalseUnion(nonUndefinedTypes)
        THEN <<>>
        ELSE IF lits.thrown \/ (lits.isAllLiterals /\ Len(lits.values) > 0)
        THEN <<>>
        ELSE nonUndefinedTypes

\* The logger.debug call normalizePropType itself makes at the branch it
\* takes, by the fixed part of its message.
OwnMessage(type, typeText, optionalType) ==
    IF optionalType = Thrown THEN <<>>
    ELSE IF optionalType # Null THEN <<"Optional type">>
    ELSE IF isBooleanType(typeText) THEN <<>>
    ELSE IF typeText = <<"string">> \/ type.isString THEN <<>>
    ELSE IF typeText = <<"number">> \/ type.isNumber THEN <<>>
    ELSE IF TrueFalseText(typeText) THEN <<>>
    ELSE IF type.isUnion THEN <<"Handling union type">>
    ELSE IF type.isArray \/ type.isTuple \/ EndsWithBrackets(typeText)
    THEN <<"Handling array type">>
    ELSE IF type.callSignatures > 0 THEN <<"Handling function type">>
    ELSE IF type.isObject THEN <<"Handling debug type">>
    ELSE <<>>

RECURSIVE DebugMessages(_)
RECURSIVE MessagesOfAll(_)
MessagesOfAll(types) ==
    IF Len(types) = 0 THEN <<>>
    ELSE DebugMessages(types[1]) \o MessagesOfAll(Tail(types))

\* The union branch goes on into normalizeUnionType.
BelowUnion(type, own) ==
    IF own = <<"Handling union type">> THEN MessagesOfAll(UnionRecursion(type)) ELSE <<>>

\* The messages one call normalizePropType(type) hands to logger.debug, the
\* calls it makes on member types included, in the order of the calls.
DebugMessages(type) ==
    MessagesOfAll(OptionalRecursion(type, type.text))
    \o (LET own == OwnMessage(type, type.text, handleOptionalType(type, type.text))
        IN  own \o BelowUnion(type, own))

\* ------------------------------------------------------------ member graph
\* The members reachable from the root type of a parameter. Node 0 is the
\* root type; node n >= 1 is a member (a property symbol) of the type of
\* node parent[n], declared optional (name?: T) or not, with a type of the
\* given kind. The members of one type are its nodes in increasing order.
NodeKinds == <<"number", "optNumber", "optString", "object", "optObject">>

\* getTypeAtLocation of a member of each kind.
KindType(k) ==
    IF k = "number" THEN TNumber
    ELSE IF k = "optNumber"
    THEN UnionOf(<<TUndefined, TNumber>>, <<"number", " | ", "undefined">>)
    ELSE IF k = "optString"
    THEN UnionOf(<<TUndefined, TString>>, <<"string", " | ", "undefined">>)
    ELSE IF k = "object" THEN TObject
    ELSE IF k = "tuple" THEN TTuple
    ELSE UnionOf(<<TUndefined, TObject>>, <<"{ id: number; }", " | ", "undefined">>)

\* An object type, alone or beside undefined, declares members; so does a
\* tuple type (its elements and length).
HasMembersKind(k) == k \in {"object", "optObject", "tuple"}

MemberNames == <<"a", "b", "c", "d">>

Nodes(tr) == 1..Len(tr.parent)

Properties_reversed(tr, n) ==
    LET members == SelectSeq([i \in Nodes(tr) |-> i], LAMBDA i : tr.parent[i] = n)
    IN  [i \in 1..Len(members) |-> members[Len(members) + 1 - i]]

\* propType.getProperties(): the members of node n, in declaration order.
Properties(tr, n) == SelectSeq([i \in Nodes(tr) |-> i], LAMBDA i : tr.parent[i] = n)

\* propSymbol.getName(): members are named by their position in their type.
NameOf(tr, n) ==
    MemberNames[Cardinality({i \in 1..n : tr.parent[i] = tr.parent[n]})]

IsTree(tr) ==
    /\ \A n \in Nodes(tr) : tr.parent[n] \in 0..(n - 1)
    /\ \A n \in Nodes(tr) :
           tr.parent[n] # 0 => HasMembersKind(tr.kind[tr.parent[n]])

\* The member graphs of at most MaxNodes members.
IsInputTree(tr) ==
    \E n \in 0..MaxNodes :
        \E p \in [1..n -> 0..(n - 1)] :
            \E o \in [1..n -> BOOLEAN] :
                \E k \in [1..n -> {NodeKinds[i] : i \in 1..Len(NodeKinds)}] :
                    /\ IsTree([parent |-> p, optional |-> o, kind |-> k])
                    /\ tr = [parent |-> p, optional |-> o, kind |-> k]

NoTree == [parent |-> <<>>, optional |-> <<>>, kind |-> <<>>]

\* ------------------------------------------------ extractPropsFromParameter
\* !propSymbol.hasFlags(SymbolFlags.Optional) && parentRequired
isRequired_ownFlagOnly(optional, parentRequired) == ~optional

isRequired(optional, parentRequired) == ~optional /\ parentRequired

\* One element of directProps, with its temporary metadata.
DirectProp_qualified(tr, n, parentRequired) ==
    [name |-> IF tr.parent[n] = 0 THEN NameOf(tr, n)
              ELSE NameOf(tr, tr.parent[n]) \o "." \o NameOf(tr, n),
     type |-> normalizePropType(KindType(tr.kind[n])),
     required |-> isRequired(tr.optional[n], parentRequired),
     symbol |-> n,
     rawType |-> KindType(tr.kind[n])]

DirectProp(tr, n, parentRequired) ==
    [name |-> NameOf(tr, n),
     type |-> normalizePropType(KindType(tr.kind[n])),
     required |-> isRequired(tr.optional[n], parentRequired),
     symbol |-> n,
     rawType |-> KindType(tr.kind[n])]

RECURSIVE extractPropsFromType(_, _, _)
RECURSIVE NestedProps(_, _)
\* .flatMap((prop) => extractPropsFromType(prop.rawType, prop.required))
NestedProps(tr, nested) ==
    IF Len(nested) = 0 THEN <<>>
    ELSE extractPropsFromType(tr, nested[1].symbol, nested[1].required)
         \o NestedProps(tr, Tail(nested))

\* Each direct prop followed at once by what is below it.
RECURSIVE Interleaved(_, _)
Interleaved(tr, directProps) ==
    IF Len(directProps) = 0 THEN <<>>
    ELSE <<directProps[1]>>
         \o NestedProps(tr, SelectSeq(<<directProps[1]>>,
                            LAMBDA prop : prop.rawType.isObject /\ ~prop.rawType.isArray))
         \o Interleaved(tr, Tail(directProps))

extractPropsFromType_interleaved(tr, n, parentRequired) ==
    LET members == Properties(tr, n)
    IN  Interleaved(tr, [i \in 1..Len(members) |->
                            DirectProp(tr, members[i], parentRequired)])

\* The recursive closure of extractPropsFromParameter, before the final map
\* that drops the metadata.
extractPropsFromType(tr, n, parentRequired) ==
    LET members == Properties(tr, n)
        directProps == [i \in 1..Len(members) |->
                            DirectProp(tr, members[i], parentRequired)]
        nested == SelectSeq(directProps,
                            LAMBDA prop : prop.rawType.isObject /\ ~prop.rawType.isArray)
        nestedProps == NestedProps(tr, nested)
    IN  directProps \o nestedProps

\* ({name, type, required}) => ({name, type, required})
ParsedProp(prop) == [name |-> prop.name, type |-> prop.type, required |-> prop.required]

extractPropsFromParameter(tr) ==
    LET all == extractPropsFromType(tr, 0, TRUE)
    IN  [i \in 1..Len(all) |-> ParsedProp(all[i])]

\* The member symbols behind the entries of extractPropsFromParameter(tr).
WalkOf(tr) ==
    LET all == extractPropsFromType(tr, 0, TRUE)
    IN  [i \in 1..Len(all) |-> all[i].symbol]

\* ------------------------------------------- extractPropsFromType, by call
\* The recursion of extractPropsFromParameter one call at a time, over member
\* graphs in which the type of a member may be a type met before: refs[n] is
\* NoRef, or the node (0 for the root) whose type getTypeAtLocation returns
\* for member n, whose members are then that node's members.
NoRef == -1

Target(rf, n) == IF n > 0 /\ rf[n] # NoRef THEN rf[n] ELSE n

\* A member naming a type again is of an object type and has no member nodes
\* of its own; the type named is the root's or that of an object member.
IsRefs(tr, rf) ==
    \A n \in Nodes(tr) :
        rf[n] # NoRef =>
            /\ tr.kind[n] = "object"
            /\ Properties(tr, n) = <<>>
            /\ rf[n] \in 0..(Len(tr.parent) - 1)
            /\ rf[n] # n
            /\ rf[n] # 0 => tr.kind[rf[n]] = "object" /\ rf[rf[n]] = NoRef

\* The kinds of the members of a walked graph.
WalkKinds == {"number", "object", "optObject", "tuple"}

\* The member graphs of at most MaxMembers members, with their references.
IsInputGraph(tr, rf) ==
    \E n \in 0..MaxMembers :
        \E p \in [1..n -> 0..(n - 1)], k \in [1..n -> WalkKinds] :
            /\ IsTree([parent |-> p, optional |-> [i \in 1..n |-> FALSE], kind |-> k])
            /\ \E r \in [1..n -> {NoRef} \cup 0..(n - 1)] :
                   /\ IsRefs([parent |-> p, optional |-> [i \in 1..n |-> FALSE], kind |-> k], r)
                   /\ rf = r
                   /\ \E o \in [1..n -> BOOLEAN] :
                          tr = [parent |-> p, optional |-> o, kind |-> k]

\* One call extractPropsFromType(propType, parentRequired), propType being
\* the type of node type.
WalkCall(type, parentRequired) == [type |-> type, parentRequired |-> parentRequired]

\* propType.getProperties().map(...) of a call.
DirectPropsOf(tr, call) ==
    LET members == Properties(tr, call.type)
    IN  [i \in 1..Len(members) |-> DirectProp(tr, members[i], call.parentRequired)]

NestedOf_unions(directProps) ==
    SelectSeq(directProps, LAMBDA prop : prop.rawType.isUnion /\ ~prop.rawType.isArray)

\* The props that pass the filter of nestedProps.
NestedOf(directProps) ==
    SelectSeq(directProps, LAMBDA prop : prop.rawType.isObject /\ ~prop.rawType.isArray)

NestedCalls_reentrant(rf, call, nested) ==
    [i \in 1..Len(nested) |-> WalkCall(call.type, nested[i].required)]

\* The calls the flatMap of a call makes, in order:
\* extractPropsFromType(prop.rawType, prop.required).
NestedCalls(rf, call, nested) ==
    [i \in 1..Len(nested) |->
        WalkCall(Target(rf, nested[i].symbol), nested[i].required)]

\* ------------------------------------------------------------------- path
\* A string the code takes apart (a path, a component name) is the sequence
\* of its characters.
Slash == "/"
Dot == "."

\* Index of the first character of the last path segment.
BaseStart(p) ==
    IF \E i \in 1..Len(p) : p[i] = Slash
    THEN 1 + CHOOSE i \in 1..Len(p) :
                 p[i] = Slash /\ \A j \in (i + 1)..Len(p) : p[j] # Slash
    ELSE 1

\* path.extname: from the last dot of the last segment, unless there is none
\* or it is the segment's first character.
extname(p) ==
    LET dots == {i \in BaseStart(p)..Len(p) : p[i] = Dot}
    IN  IF dots = {} THEN <<>>
        ELSE LET d == CHOOSE i \in dots : \A j \in dots : j <= i
             IN  IF d = BaseStart(p) THEN <<>> ELSE SubSeq(p, d, Len(p))

\* path.basename(p, ext): the last segment, without ext when it ends with it.
basename(p, ext) ==
    LET base == SubSeq(p, BaseStart(p), Len(p))
        n == Len(base) - Len(ext)
    IN  IF Len(ext) > 0 /\ n >= 0 /\ SubSeq(base, n + 1, Len(base)) = ext
        THEN SubSeq(base, 1, n)
        ELSE base

\* String.prototype.toUpperCase on one character.
toUpperCase(c) ==
    CASE c = "a" -> "A" [] c = "b" -> "B" [] c = "c" -> "C" [] c = "d" -> "D"
      [] c = "n" -> "N" [] c = "r" -> "R" [] c = "u" -> "U" [] c = "v" -> "V"
      [] OTHER -> c

\* filename.charAt(0).toUpperCase() + filename.slice(1)
Capitalize(filename) ==
    IF Len(filename) = 0 THEN <<>>
    ELSE <<toUpperCase(filename[1])>> \o Tail(filename)

\* --------------------------------------------------------- declarations
DefaultName == <<"d", "e", "f", "a", "u", "l", "t">>
ExportNames == <<DefaultName, <<"B", "t", "n">>, <<"N", "a", "v">>>>
OwnName == <<"O", "w", "n">>
FilePaths ==
    {<<"s", "r", "c", "/", "c", "a", "r", "d", ".", "t", "s", "x">>,
     <<"N", "a", "v", ".", "t", "s">>,
     <<"u", "i", "/", "a", ".", "b", ".", "t", "s">>}

\* The root types of the props parameter used by the declarations.
OnePropTree == [parent |-> <<0>>, optional |-> <<FALSE>>, kind |-> <<"number">>]

\* An exported declaration: its node kind and what the code asks of it.
\*   name            getName() ("" when it has none)
\*   parameters      number of parameters of the function, the arrow function
\*                   or the arrow function initializer
\*   initializer     of a variable: "arrow", "other" or "none"
\*   typeParameters  of a class: "none", "unconstrained" (the first has no
\*                   constraint) or "constrained"
\*   propsTree       the root type of the first parameter / the constraint
\*   typeThrows      resolving that type throws
Decl(k, n, ps, init, tps, tr, th) ==
    [kind |-> k, name |-> n, parameters |-> ps, initializer |-> init,
     typeParameters |-> tps, propsTree |-> tr, typeThrows |-> th]

DeclSeq ==
    <<Decl("function", OwnName, 1, "none", "none", OnePropTree, FALSE),
      Decl("function", <<>>, 1, "none", "none", NoTree, FALSE),
      Decl("function", OwnName, 0, "none", "none", NoTree, FALSE),
      Decl("function", OwnName, 1, "none", "none", OnePropTree, TRUE),
      Decl("arrow", <<>>, 1, "none", "none", OnePropTree, FALSE),
      Decl("arrow", <<>>, 0, "none", "none", NoTree, FALSE),
      Decl("variable", OwnName, 1, "arrow", "none", OnePropTree, FALSE),
      Decl("variable", OwnName, 0, "other", "none", NoTree, FALSE),
      Decl("class", OwnName, 0, "none", "constrained", OnePropTree, FALSE),
      Decl("class", <<>>, 0, "none", "constrained", NoTree, FALSE),
      Decl("class", OwnName, 0, "none", "constrained", OnePropTree, TRUE),
      Decl("class", OwnName, 0, "none", "unconstrained", NoTree, FALSE),
      Decl("class", OwnName, 0, "none", "none", NoTree, FALSE),
      Decl("other", OwnName, 0, "none", "none", NoTree, FALSE)>>

\* The export entries of a file: a cut before declaration i starts a new
\* entry; the entries carry distinct export names.
\* The entry e of the declarations ds cut into entries.
EntryDeclarations(ds, cut, e) ==
    LET idx == {i \in 1..Len(ds) : Cardinality({j \in 1..i : cut[j]}) = e}
        lo == CHOOSE i \in idx : \A j \in idx : i <= j
    IN  [i \in 1..Cardinality(idx) |-> DeclSeq[ds[lo + i - 1]]]

\* The source files of at most MaxDecls exported declarations.
IsInputUnit(u) ==
    \E n \in 0..MaxDecls :
        \E f \in FilePaths :
            \E ds \in [1..n -> 1..Len(DeclSeq)] :
                \E cut \in [1..n -> BOOLEAN] :
                    \E names \in [1..Cardinality({j \in 1..n : cut[j]})
                                     -> 1..Len(ExportNames)] :
                        /\ n > 0 => cut[1]
                        /\ \A i, j \in DOMAIN names : i # j => names[i] # names[j]
                        /\ u = [filePath |-> f,
                                exports |->
                                   [e \in DOMAIN names |->
                                       [name |-> ExportNames[names[e]],
                                        declarations |-> EntryDeclarations(ds, cut, e)]]]

\* ------------------------------------------------ parseComponentDeclaration
Info(t, n, ps, f) == [tag |-> t, name |-> n, props |-> ps, sourceFilePath |-> f]
ComponentInfo(n, ps, f) == Info("info", n, ps, f)
NullInfo == Info("null", <<>>, <<>>, <<>>)
ThrownInfo == Info("throw", <<>>, <<>>, <<>>)

\* determineComponentName with path.basename(filePath) in the fallback.
determineComponentName_keepsExtension(exportName, declaration, filePath) ==
    IF exportName # DefaultName THEN exportName
    ELSE IF declaration.kind = "function" /\ declaration.name # <<>>
    THEN declaration.name
    ELSE IF declaration.kind = "class" /\ declaration.name # <<>>
    THEN declaration.name
    ELSE IF declaration.kind = "variable"
    THEN declaration.name
    ELSE Capitalize(basename(filePath, <<>>))

determineComponentName(exportName, declaration, filePath) ==
    IF exportName # DefaultName THEN exportName
    ELSE IF declaration.kind = "function" /\ declaration.name # <<>>
    THEN declaration.name
    ELSE IF declaration.kind = "class" /\ declaration.name # <<>>
    THEN declaration.name
    ELSE IF declaration.kind = "variable"
    THEN declaration.name
    ELSE Capitalize(basename(filePath, extname(filePath)))

\* extractPropsFromParameter on the declaration's props type.
PropsOf(declaration, componentName, filePath) ==
    IF declaration.typeThrows THEN ThrownInfo
    ELSE ComponentInfo(componentName,
                       extractPropsFromParameter(declaration.propsTree), filePath)

\* extractPropsFromFunctionComponent without the parameters.length check.
extractPropsFromFunctionComponent_unchecked(componentName, declaration, filePath) ==
    PropsOf(declaration, componentName, filePath)

extractPropsFromFunctionComponent(componentName, declaration, filePath) ==
    IF declaration.parameters = 0 THEN NullInfo
    ELSE PropsOf(declaration, componentName, filePath)

\* The catch of extractPropsFromClassComponent: a throw becomes null.
CatchToNull(info) == IF info = ThrownInfo THEN NullInfo ELSE info

extractPropsFromClassComponent(componentName, declaration, filePath) ==
    IF declaration.typeParameters = "none" THEN NullInfo
    ELSE IF declaration.typeParameters = "unconstrained" THEN NullInfo
    ELSE CatchToNull(PropsOf(declaration, componentName, filePath))

parseComponentDeclaration(exportName, declaration, filePath) ==
    LET componentName == determineComponentName(exportName, declaration, filePath)
    IN  IF declaration.kind = "function"
        THEN extractPropsFromFunctionComponent(componentName, declaration, filePath)
        ELSE IF declaration.kind = "arrow"
        THEN extractPropsFromFunctionComponent(componentName, declaration, filePath)
        ELSE IF declaration.kind = "variable" /\ declaration.initializer = "arrow"
        THEN extractPropsFromFunctionComponent(componentName, declaration, filePath)
        ELSE IF declaration.kind = "class"
        THEN extractPropsFromClassComponent(componentName, declaration, filePath)
        ELSE NullInfo

\* ------------------------------------------------------------ parser.ts
\* declarations.map((declaration) => parseComponentDeclaration(name, ...))
MapDeclarations(entry, filePath) ==
    [i \in 1..Len(entry.declarations) |->
        parseComponentDeclaration(entry.name, entry.declarations[i], filePath)]

\* An exception of one call leaves the map; otherwise the list is kept whole.
Unfiltered(mapped) ==
    IF \E i \in 1..Len(mapped) : mapped[i] = ThrownInfo
    THEN [error |-> TRUE, list |-> <<>>]
    ELSE [error |-> FALSE, list |-> mapped]

\* An exception of one call leaves the map; otherwise
\* .filter((component) => component !== null)
FilterNonNull(mapped) ==
    IF \E i \in 1..Len(mapped) : mapped[i] = ThrownInfo
    THEN [error |-> TRUE, list |-> <<>>]
    ELSE [error |-> FALSE,
          list |-> SelectSeq(mapped, LAMBDA component : component # NullInfo)]

\* parseExportEntry without the filter of the null results.
parseExportEntry_unfiltered(entry, filePath) ==
    Unfiltered(MapDeclarations(entry, filePath))

parseExportEntry(entry, filePath) ==
    FilterNonNull(MapDeclarations(entry, filePath))

\* flatMap appends the entry's components; an exception ends the whole map.
ConcatResults(head, rest) ==
    IF head.error \/ rest.error
    THEN [error |-> TRUE, list |-> <<>>]
    ELSE [error |-> FALSE, list |-> head.list \o rest.list]

RECURSIVE FlatEntries(_, _)
\* exportEntries.flatMap((entry) => parseExportEntry(entry, filePath))
FlatEntries(exportEntries, filePath) ==
    IF Len(exportEntries) = 0 THEN [error |-> FALSE, list |-> <<>>]
    ELSE ConcatResults(parseExportEntry(exportEntries[1], filePath),
                 FlatEntries(Tail(exportEntries), filePath))

\* The value returned, or (error) the ParsingError thrown in its place.
parseComponents(sourceFile) ==
    FlatEntries(sourceFile.exports, sourceFile.filePath)

RECURSIVE FlatDeclarations(_)
\* Every (export name, declaration) of the file, in enumeration order.
FlatDeclarations(exportEntries) ==
    IF Len(exportEntries) = 0 THEN <<>>
    ELSE [i \in 1..Len(exportEntries[1].declarations) |->
             [exportName |-> exportEntries[1].name,
              declaration |-> exportEntries[1].declarations[i]]]
         \o FlatDeclarations(Tail(exportEntries))

\* One parseComponentDeclaration call with what it returned.
CallOf(d, filePath) ==
    [exportName |-> d.exportName,
     declaration |-> d.declaration,
     componentName |-> determineComponentName(d.exportName, d.declaration, filePath),
     returned |-> parseComponentDeclaration(d.exportName, d.declaration, filePath)]

\* The calls up to and including the first one that threw.
UpToThrow(all) ==
    LET made == {i \in 1..Len(all) :
                    \A j \in 1..(i - 1) : all[j].returned # ThrownInfo}
    IN  SubSeq(all, 1, Cardinality(made))

\* The parseComponentDeclaration calls parseComponents makes: all of them,
\* or those up to the first one that throws.
CallsOf(sourceFile) ==
    UpToThrow([i \in 1..Len(FlatDeclarations(sourceFile.exports)) |->
                  CallOf(FlatDeclarations(sourceFile.exports)[i], sourceFile.filePath)])

NoUnit == [filePath |-> <<>>, exports |-> <<>>]
NoComponents == [error |-> FALSE, list |-> <<>>]

\* -------------------------------------------------------------- generator
\* A generated string is the sequence of its pieces: "PropTypes.", a
\* validator word, "([", ", ", "])", ".isRequired", a quote, a value, a
\* name, a line break; the characters of a component name are pieces of
\* their own.
RECURSIVE Numeral(_)
\* String(n) of an integer: its decimal digits, "-" first when negative.
Numeral(n) ==
    LET digits == <<"0", "1", "2", "3", "4", "5", "6", "7", "8", "9">>
    IN  IF n < 0 THEN <<"-">> \o Numeral(0 - n)
        ELSE IF n < 10 THEN <<digits[n + 1]>>
        ELSE Numeral(n \div 10) \o <<digits[(n % 10) + 1]>>

\* String(value) of a number or a boolean.
String(value) ==
    IF value.k = "number" THEN Numeral(value.n)
    ELSE IF value.n = 1 THEN <<"true">> ELSE <<"false">>

RECURSIVE join(_, _)
\* parts.join(separator)
join(parts, separator) ==
    IF Len(parts) = 0 THEN <<>>
    ELSE IF Len(parts) = 1 THEN parts[1]
    ELSE parts[1] \o separator \o join(Tail(parts), separator)

\* typeof value === 'string' ? `'${value}'` : String(value)
ValueString(value) ==
    IF value.k = "string" THEN <<"'", value.s, "'">> ELSE String(value)

\* PROP_TYPE_VALIDATORS.primitive without the special case of boolean.
PrimitiveValidator_plainName(type) == <<"PropTypes.", type.name>>

\* PROP_TYPE_VALIDATORS.primitive
PrimitiveValidator(type) ==
    IF type.name = "boolean" THEN <<"PropTypes.", "bool">>
    ELSE <<"PropTypes.", type.name>>

\* PROP_TYPE_VALIDATORS.oneOf
OneOfValidator(type) ==
    <<"PropTypes.", "oneOf", "([">>
    \o join([i \in 1..Len(type.values) |-> ValueString(type.values[i])], <<", ">>)
    \o <<"])">>

RECURSIVE generatePropTypeValidator(_)
\* PROP_TYPE_VALIDATORS.oneOfType(type, generatePropTypeValidator)
OneOfTypeValidator(type) ==
    <<"PropTypes.", "oneOfType", "([">>
    \o join([i \in 1..Len(type.types) |-> generatePropTypeValidator(type.types[i])],
            <<", ">>)
    \o <<"])">>

generatePropTypeValidator(normalizedType) ==
    IF normalizedType.kind = "primitive" THEN PrimitiveValidator(normalizedType)
    ELSE IF normalizedType.kind = "array" THEN <<"PropTypes.", "array">>
    ELSE IF normalizedType.kind = "object" THEN <<"PropTypes.", "object">>
    ELSE IF normalizedType.kind = "function" THEN <<"PropTypes.", "func">>
    ELSE IF normalizedType.kind = "any" THEN <<"PropTypes.", "any">>
    ELSE IF normalizedType.kind = "oneOf" THEN OneOfValidator(normalizedType)
    ELSE IF normalizedType.kind = "oneOfType" THEN OneOfTypeValidator(normalizedType)
    ELSE <<"PropTypes.", "any">>

\* `${propTypeValidator}.isRequired` when required, else propTypeValidator
WithRequired(propTypeValidator, required) ==
    IF required THEN propTypeValidator \o <<".isRequired">> ELSE propTypeValidator

createPropValidator(parsedProp) ==
    WithRequired(generatePropTypeValidator(parsedProp.type), parsedProp.required)

\* `  ${prop.name}: ${propValidator},`
PropLine(prop) == <<"  ", prop.name, ": ">> \o createPropValidator(prop) \o <<",">>

\* if (propLines.length === 0) propLines.push('')
PushEmptyLine(propLines) == IF Len(propLines) = 0 THEN <<(<<>>)>> ELSE propLines

\* The final template with the lines joined by ', '.
Declaration_commaJoined(name, propLines) ==
    name \o <<".propTypes = {", "\n">> \o join(propLines, <<", ">>) \o <<"\n", "};">>

\* `${componentInfo.name}.propTypes = {\n${propLines.join('\n')}\n};`
Declaration(name, propLines) ==
    name \o <<".propTypes = {", "\n">> \o join(propLines, <<"\n">>) \o <<"\n", "};">>

generateComponentString(ci) ==
    Declaration(ci.name,
                PushEmptyLine([i \in 1..Len(ci.props) |-> PropLine(ci.props[i])]))

\* The createPropValidator results of one generateComponentString call.
ValidatorsOf(ci) == [i \in 1..Len(ci.props) |-> createPropValidator(ci.props[i])]

\* The NormalizedPropType values handed to the generator.
GenTypes ==
    <<Primitive("string"), Primitive("number"), Primitive("boolean"),
      ArrayT, ObjectT, FunctionT, AnyT,
      OneOf(<<StrVal("a"), StrVal("b")>>),
      OneOf(<<NumVal(1), StrVal("default"), BoolVal(TRUE)>>),
      OneOf(<<NumVal(20), NumVal(-3), BoolVal(FALSE)>>),
      OneOfType(<<Primitive("string"), Primitive("number")>>),
      OneOfType(<<Primitive("string"), OneOfType(<<ArrayT, Primitive("boolean")>>)>>)>>

GenNames == {<<"B", "t", "n">>, <<"C", "a", "r", "d">>}

\* The ComponentInfo values of at most MaxProps props.
IsInputInfo(ci) ==
    \E name \in GenNames :
        \E n \in 0..MaxProps :
            \E ts \in [1..n -> 1..Len(GenTypes)] :
                \E rq \in [1..n -> BOOLEAN] :
                    ci = ComponentInfo(name,
                                       [i \in 1..n |-> [name |-> MemberNames[i],
                                                        type |-> GenTypes[ts[i]],
                                                        required |-> rq[i]]],
                                       <<"B", "t", "n", ".", "t", "s", "x">>)

\* ----------------------------------------------------------------- writer
\* A source file of the ts-morph Project, as far as the writer touches it:
\*   path        getFilePath()
\*   original    it still contains the text it was loaded with
\*   imports     number of import declarations of 'prop-types'
\*   statements  the statements added by the writer, in order
\*   saved       the text on disk is the text in memory
\*   formatted   the text on disk went through the formatter
ProjectFile(p, orig, imps, stmts, sv, fm) ==
    [path |-> p, original |-> orig, imports |-> imps, statements |-> stmts,
     saved |-> sv, formatted |-> fm]

\* A file as the Project loads it from disk.
LoadedFile(p) == ProjectFile(p, TRUE, 0, <<>>, TRUE, FALSE)

\* A Project is the sequence of its source files, one per path.
FileIndex(proj, p) ==
    IF \E i \in 1..Len(proj) : proj[i].path = p
    THEN CHOOSE i \in 1..Len(proj) : proj[i].path = p
    ELSE 0

\* The file with the path of f is replaced by f, or f is added.
PutFile(proj, f) ==
    IF FileIndex(proj, f.path) = 0 THEN Append(proj, f)
    ELSE [proj EXCEPT ![FileIndex(proj, f.path)] = f]

\* WriteOptions; an option that was not given is FALSE / the empty string.
WriteOptions(outDir, inline, prettier) ==
    [outDir |-> outDir, inline |-> inline, prettier |-> prettier]

EndsWith(str, suffix) ==
    /\ Len(str) >= Len(suffix)
    /\ SubSeq(str, Len(str) - Len(suffix) + 1, Len(str)) = suffix

TsExt == <<".", "t", "s">>
TsxExt == <<".", "t", "s", "x">>
PropTypesExt == <<".", "p", "r", "o", "p", "T", "y", "p", "e", "s", ".", "t", "s">>

\* sourcePath.replace(/\.tsx?$/, '.propTypes.ts') replacing .tsx only.
ReplaceTsExt_tsxOnly(sourcePath) ==
    IF EndsWith(sourcePath, TsxExt)
    THEN SubSeq(sourcePath, 1, Len(sourcePath) - Len(TsxExt)) \o PropTypesExt
    ELSE sourcePath

\* sourcePath.replace(/\.tsx?$/, '.propTypes.ts')
ReplaceTsExt(sourcePath) ==
    IF EndsWith(sourcePath, TsxExt)
    THEN SubSeq(sourcePath, 1, Len(sourcePath) - Len(TsxExt)) \o PropTypesExt
    ELSE IF EndsWith(sourcePath, TsExt)
    THEN SubSeq(sourcePath, 1, Len(sourcePath) - Len(TsExt)) \o PropTypesExt
    ELSE sourcePath

\* path.join(dir, fileName) for a non-empty dir: one separator between them.
pathJoin(dir, fileName) ==
    IF dir[Len(dir)] = Slash THEN dir \o fileName
    ELSE dir \o <<Slash>> \o fileName

resolveOutputPath_alwaysRenamed(ci, opts) ==
    IF opts.inline THEN ci.sourceFilePath
    ELSE IF opts.outDir # <<>>
    THEN pathJoin(opts.outDir, basename(ReplaceTsExt(ci.sourceFilePath), <<>>))
    ELSE IF ReplaceTsExt(ci.sourceFilePath) = ci.sourceFilePath
    THEN ci.sourceFilePath \o PropTypesExt
    ELSE ReplaceTsExt(ci.sourceFilePath)

resolveOutputPath(ci, opts) ==
    IF opts.inline THEN ci.sourceFilePath
    ELSE IF opts.outDir # <<>>
    THEN pathJoin(opts.outDir, basename(ReplaceTsExt(ci.sourceFilePath), <<>>))
    ELSE ReplaceTsExt(ci.sourceFilePath)

\* FileCreationResult
FileCreationResult(success, filePath, error) ==
    [success |-> success, filePath |-> filePath, error |-> error]

\* What createSourceFile leaves behind: its result and the Project.
Outcome(r, proj) == [result |-> r, project |-> proj]

\* ensurePropTypesImport(file)
ensurePropTypesImport(file) ==
    IF file.imports = 0 THEN [file EXCEPT !.imports = 1] ELSE file

\* file.addStatements((writer) => writer.write(propTypesDeclaration))
addStatements(file, propTypesDeclaration) ==
    [file EXCEPT !.statements = Append(@, propTypesDeclaration),
                 !.saved = FALSE, !.formatted = FALSE]

SaveAndFormat_formatRequired(ci, proj, opts, file, env) ==
    IF env.saveThrows \/ (opts.prettier /\ ~env.formatOk)
    THEN Outcome(FileCreationResult(FALSE, ci.sourceFilePath, "save failed"),
                 PutFile(proj, file))
    ELSE Outcome(FileCreationResult(TRUE, resolveOutputPath(ci, opts), ""),
                 PutFile(proj,
                         [file EXCEPT !.saved = TRUE, !.formatted = opts.prettier]))

\* await file.save(), then formatSingleFile(outputPath) when prettier is set.
\* env.saveThrows: the save is rejected; env.formatOk: the formatter succeeds.
SaveAndFormat(ci, proj, opts, file, env) ==
    IF env.saveThrows
    THEN Outcome(FileCreationResult(FALSE, ci.sourceFilePath, "save failed"),
                 PutFile(proj, file))
    ELSE Outcome(FileCreationResult(TRUE, resolveOutputPath(ci, opts), ""),
                 PutFile(proj,
                         [file EXCEPT !.saved = TRUE,
                                      !.formatted = opts.prettier /\ env.formatOk]))

\* Lines 126-134 on the file that was found or created.
WriteInto(ci, proj, opts, file, env) ==
    SaveAndFormat(ci, proj, opts,
                  addStatements(ensurePropTypesImport(file),
                                generateComponentString(ci)),
                  env)

\* project.createSourceFile(outputPath, '', {overwrite: true})
EmptyFile(p) == ProjectFile(p, FALSE, 0, <<>>, FALSE, FALSE)

createSourceFile_keepsUnit(ci, proj, opts, env) ==
    IF Len(ci.props) = 0
    THEN Outcome(FileCreationResult(FALSE, ci.sourceFilePath, "Component has no props"),
                 proj)
    ELSE IF opts.inline
    THEN (IF FileIndex(proj, ci.sourceFilePath) = 0
          THEN Outcome(FileCreationResult(FALSE, ci.sourceFilePath, "not found"),
                       proj)
          ELSE WriteInto(ci, proj, opts,
                         proj[FileIndex(proj, ci.sourceFilePath)], env))
    ELSE IF FileIndex(proj, resolveOutputPath(ci, opts)) # 0
    THEN WriteInto(ci, proj, opts,
                   proj[FileIndex(proj, resolveOutputPath(ci, opts))], env)
    ELSE WriteInto(ci, proj, opts,
                   EmptyFile(resolveOutputPath(ci, opts)), env)

createSourceFile(ci, proj, opts, env) ==
    IF Len(ci.props) = 0
    THEN Outcome(FileCreationResult(FALSE, ci.sourceFilePath, "Component has no props"),
                 proj)
    ELSE IF opts.inline
    THEN (IF FileIndex(proj, ci.sourceFilePath) = 0
          THEN Outcome(FileCreationResult(FALSE, ci.sourceFilePath, "not found"),
                       proj)
          ELSE WriteInto(ci, proj, opts,
                         proj[FileIndex(proj, ci.sourceFilePath)], env))
    ELSE WriteInto(ci, proj, opts,
                   EmptyFile(resolveOutputPath(ci, opts)), env)

\* One createSourceFile call with its result.
WriteOf(ci, env, outcome) ==
    [componentInfo |-> ci, env |-> env, result |-> outcome.result]

\* The components handed to the writer: two of one source file, one of a
\* source file with the same base name elsewhere, one without props, one of
\* a source file that is not TypeScript.
BtnTsx == <<"s", "r", "c", "/", "B", "t", "n", ".", "t", "s", "x">>
BtnTs == <<"l", "i", "b", "/", "B", "t", "n", ".", "t", "s">>
OldJs == <<"s", "r", "c", "/", "o", "l", "d", ".", "j", "s">>
WriterSources == <<BtnTsx, BtnTs, OldJs>>

OneProp(n, t, r) == <<[name |-> n, type |-> t, required |-> r]>>

WriterComponents ==
    <<ComponentInfo(<<"B", "t", "n">>, OneProp("a", Primitive("string"), TRUE), BtnTsx),
      ComponentInfo(<<"N", "a", "v">>, OneProp("b", Primitive("number"), FALSE), BtnTsx),
      ComponentInfo(<<"B", "t", "n">>, OneProp("c", FunctionT, TRUE), BtnTs),
      ComponentInfo(<<"I", "c", "o", "n">>, <<>>, BtnTsx),
      ComponentInfo(<<"O", "l", "d">>, OneProp("a", AnyT, FALSE), OldJs)>>

\* The outDir option: not given, a directory of its own, the directory of
\* the first source file.
OutDirs == {<<>>, <<"o", "u", "t">>, <<"s", "r", "c", "/">>}

\* What the environment does to one createSourceFile call.
Env(saveThrows, formatOk) == [saveThrows |-> saveThrows, formatOk |-> formatOk]
Envs == {Env(FALSE, TRUE), Env(TRUE, TRUE), Env(FALSE, FALSE)}

\* The Project before the first call: the source files are loaded (the first
\* may import prop-types already), or the Project is empty.
InitialProjects ==
    {<<>>,
     [i \in 1..Len(WriterSources) |-> LoadedFile(WriterSources[i])],
     [i \in 1..Len(WriterSources) |->
         IF i = 1 THEN [LoadedFile(WriterSources[1]) EXCEPT !.imports = 1]
         ELSE LoadedFile(WriterSources[i])]}

\* -------------------------------------------------------------------- cli
\* FileProcessingResult; a failed result has no components.
FileProcessingResult(filePath, componentCount, success, comps, error) ==
    [filePath |-> filePath, componentCount |-> componentCount,
     success |-> success, components |-> comps, error |-> error]

\* componentCount counting only the components that have props.
ComponentCount_withProps(comps) ==
    Len(SelectSeq(comps, LAMBDA c : Len(c.props) > 0))

\* componentCount: components.length
ComponentCount(comps) == Len(comps)

\* The try / catch of processSourceFile reporting a failed parse as a
\* successful result without components.
ResultOf_swallows(filePath, parsed) ==
    IF parsed.error
    THEN FileProcessingResult(filePath, 0, TRUE, <<>>, "")
    ELSE FileProcessingResult(filePath, ComponentCount(parsed.list), TRUE,
                              parsed.list, "")

\* The try / catch of processSourceFile around parseComponents.
ResultOf(filePath, parsed) ==
    IF parsed.error
    THEN FileProcessingResult(filePath, 0, FALSE, <<>>, "error")
    ELSE FileProcessingResult(filePath, ComponentCount(parsed.list), TRUE,
                              parsed.list, "")

processSourceFile(sourceFile) ==
    ResultOf(sourceFile.filePath, parseComponents(sourceFile))

\* The locals of generatePropTypesFiles: successCount, and what the calls
\* did to the Project and to the log of calls.
LoopState(successCount, proj, log) ==
    [successCount |-> successCount, project |-> proj, writes |-> log]

\* if (result.success) successCount++
AfterCreate(st, ci, env, outcome) ==
    LoopState(st.successCount + (IF outcome.result.success THEN 1 ELSE 0),
              outcome.project,
              Append(st.writes, WriteOf(ci, env, outcome)))

RECURSIVE GenerateLoop(_, _, _, _)
\* for (const component of components): skip without props, else
\* createSourceFile; envs[i] is what the environment does to the i-th.
GenerateLoop(comps, envs, opts, st) ==
    IF Len(comps) = 0 THEN st
    ELSE IF Len(comps[1].props) = 0
    THEN GenerateLoop(Tail(comps), Tail(envs), opts, st)
    ELSE GenerateLoop(Tail(comps), Tail(envs), opts,
                      AfterCreate(st, comps[1], envs[1],
                                  createSourceFile(comps[1], st.project, opts,
                                                   envs[1])))

generatePropTypesFiles(fileResult, proj, opts, envs, log) ==
    GenerateLoop(fileResult.components, envs, opts, LoopState(0, proj, log))

\* The state of main's loop.
MainState(frs, components_, generated, proj, log) ==
    [fileResults |-> frs, totalComponents |-> components_,
     totalGeneratedFiles |-> generated, project |-> proj, writes |-> log]

\* if (fileResult.success) { both tallies grow } after the generation.
Tallied(ms, fileResult, st) ==
    MainState(Append(ms.fileResults, fileResult),
              ms.totalComponents + fileResult.componentCount,
              ms.totalGeneratedFiles + st.successCount,
              st.project, st.writes)

\* The body of main's loop for one source file.
LoopBody(ms, fileResult, opts, envs) ==
    IF fileResult.success
    THEN Tallied(ms, fileResult,
                 generatePropTypesFiles(fileResult, ms.project, opts, envs, ms.writes))
    ELSE [ms EXCEPT !.fileResults = Append(@, fileResult)]

\* await project.save(): every source file is written to disk.
SaveAll(proj) == [i \in 1..Len(proj) |-> [proj[i] EXCEPT !.saved = TRUE]]

\* The source files of main: the i-th is f<i>.tsx.
CliPath(i) == <<"f">> \o Numeral(i) \o TsxExt

\* The exported declarations of a source file of main, as positions in
\* DeclSeq: two components with props; a component with props and one
\* without; a function whose props cannot be resolved before and after a
\* component; a class whose props cannot be resolved before a component; a
\* component without props; no export.
CliShapes == <<(<<1, 9>>), (<<1, 2>>), (<<4, 1>>), (<<1, 4>>), (<<11, 1>>), (<<2>>), (<<>>)>>

\* The source file at position i with the exports of a shape, each
\* declaration under an export name of its own.
CliUnit(i, shape) ==
    [filePath |-> CliPath(i),
     exports |-> [e \in 1..Len(shape) |->
                     [name |-> ExportNames[e + 1],
                      declarations |-> <<DeclSeq[shape[e]]>>]]]

CliEnvs == {Env(FALSE, TRUE), Env(TRUE, TRUE)}

\* --------------------------------------------------------------- formatter
\* What the formatter finds outside itself: whether import('prettier')
\* resolves, how resolveConfig ends, and for each path at which step of
\* formatSingleFileWithPrettier the file fails, if at any.
FsEnv(prettier, config, files) ==
    [prettier |-> prettier, config |-> config, files |-> files]

\* "found" and "none": resolveConfig resolves to a config or to null;
\* "rejected": its promise rejects, which .catch(() => null) turns into null;
\* "thrown": the call itself throws, inside the outer try.
ConfigOutcomes == {"found", "none", "rejected", "thrown"}

\* "ok": read, format and write succeed; "read", "format", "write": that
\* step throws.
FileOutcomes == {"ok", "read", "format", "write"}

FormattingResult(filePath, success) == [filePath |-> filePath, success |-> success]

\* try { readFile; format; writeFile; success } catch { failure }: the result,
\* and whether fs.writeFile was called.
formatSingleFileWithPrettier(filePath, outcome) ==
    [result |-> FormattingResult(filePath, outcome = "ok"),
     wrote |-> outcome \in {"ok", "write"}]

SuccessfulPaths_unfiltered(rs) == [i \in 1..Len(rs) |-> rs[i].filePath]

\* results.filter((result) => result.success).map((result) => result.filePath)
SuccessfulPaths(rs) ==
    LET kept == SelectSeq(rs, LAMBDA r : r.success)
    IN  [i \in 1..Len(kept) |-> kept[i].filePath]

\* What a call of formatWithPrettier has come to: nothing yet, a returned
\* array of paths, or an exception that left the function.
NotReturned == [returned |-> FALSE, thrown |-> FALSE, paths |-> <<>>]
Returned(paths) == [returned |-> TRUE, thrown |-> FALSE, paths |-> paths]

\* The i-th path handed to the formatter: out/f<i>.propTypes.ts.
FormatPath(i) == <<"o", "u", "t", "/", "f">> \o Numeral(i) \o PropTypesExt

\* ------------------------------------------------------------- idle parts
\* The parts of the program a run does not exercise stay as constructed.
IdleClassifier ==
    ty = BaseType /\ result = NoResult /\ level = LogLevel.INFO /\ logged = <<>>
IdleExtractor == tree = NoTree /\ props = <<>> /\ walk = <<>>
IdleLocator == unit = NoUnit /\ calls = <<>> /\ components = NoComponents
IdleGenerator == componentInfo = NullInfo /\ validators = <<>> /\ text = <<>>
IdleWriter ==
    project = <<>> /\ options = WriteOptions(<<>>, FALSE, FALSE) /\ writes = <<>>
IdleCli ==
    /\ sourceFiles = <<>>
    /\ fileIndex = 1
    /\ fileResults = <<>>
    /\ totalComponents = 0
    /\ totalGeneratedFiles = 0
    /\ exitCode = -1
IdleFormatter ==
    /\ filePaths = <<>>
    /\ fsEnv = FsEnv(TRUE, "found", <<>>)
    /\ formatIndex = 1
    /\ results = <<>>
    /\ fsReads = <<>>
    /\ fsWrites = <<>>
    /\ formatted = NotReturned
IdleWalker == refs = <<>> /\ pending = <<>>

\* Every part but the ones a run uses is idle, and stays as it is.
IdleExcept(used) ==
    /\ "classifier" \notin used => IdleClassifier
    /\ "extractor" \notin used => IdleExtractor
    /\ "locator" \notin used => IdleLocator
    /\ "generator" \notin used => IdleGenerator
    /\ "writer" \notin used => IdleWriter
    /\ "cli" \notin used => IdleCli
    /\ "formatter" \notin used => IdleFormatter
    /\ "walker" \notin used => IdleWalker

Frame(used) ==
    /\ "classifier" \notin used => UNCHANGED classifierVars
    /\ "extractor" \notin used => UNCHANGED extractorVars
    /\ "locator" \notin used => UNCHANGED locatorVars
    /\ "generator" \notin used => UNCHANGED generatorVars
    /\ "writer" \notin used => UNCHANGED writerVars
    /\ "cli" \notin used => UNCHANGED cliVars
    /\ "formatter" \notin used => UNCHANGED formatterVars
    /\ "walker" \notin used => UNCHANGED walkerVars

\* ------------------------------------------------------- classifier run
InitClassify ==
    /\ mode = "classify"
    /\ pc = "input"
    /\ IsInput(ty)
    /\ result = NoResult
    /\ level \in {LogLevel[l] : l \in DOMAIN LogLevel}
    /\ logged = <<>>
    /\ IdleExcept({"classifier"})

\* One call normalizePropType(ty).
Classify ==
    /\ mode = "classify"
    /\ pc = "input"
    /\ result' = normalizePropType(ty)
    /\ logged' = debug(level, DebugMessages(ty))
    /\ pc' = "done"
    /\ UNCHANGED <<mode, ty, level>>
    /\ Frame({"classifier"})

SpecClassify == InitClassify /\ [][Classify]_vars

\* -------------------------------------------------------- extractor run
InitExtract ==
    /\ mode = "extract"
    /\ pc = "input"
    /\ IsInputTree(tree)
    /\ props = <<>>
    /\ walk = <<>>
    /\ IdleExcept({"extractor"})

\* One call extractPropsFromParameter(param), param's type being the root.
Extract ==
    /\ mode = "extract"
    /\ pc = "input"
    /\ props' = extractPropsFromParameter(tree)
    /\ walk' = WalkOf(tree)
    /\ pc' = "done"
    /\ UNCHANGED <<mode, tree>>
    /\ Frame({"extractor"})

SpecExtract == InitExtract /\ [][Extract]_vars

\* ---- the extractor's result handed to the generator ----

EmittedName == <<"B", "t", "n">>

EmittedPath == "Btn.tsx"

InitEmit ==
    /\ mode = "emit"
    /\ pc = "input"
    /\ IsInputTree(tree)
    /\ props = <<>>
    /\ walk = <<>>
    /\ componentInfo = NullInfo
    /\ validators = <<>>
    /\ text = <<>>
    /\ IdleExcept({"extractor", "generator"})

\* extractPropsFromFunctionComponent(name, [param], filePath): the extractor's
\* result becomes the props of the ComponentInfo, entry for entry.
ExtractComponent ==
    /\ mode = "emit"
    /\ pc = "input"
    /\ props' = extractPropsFromParameter(tree)
    /\ walk' = WalkOf(tree)
    /\ componentInfo' = ComponentInfo(EmittedName, props', EmittedPath)
    /\ pc' = "extracted"
    /\ UNCHANGED <<mode, tree, validators, text>>
    /\ Frame({"extractor", "generator"})

\* generateComponentString(componentInfo) on that ComponentInfo.
EmitComponent ==
    /\ mode = "emit"
    /\ pc = "extracted"
    /\ text' = generateComponentString(componentInfo)
    /\ validators' = ValidatorsOf(componentInfo)
    /\ pc' = "done"
    /\ UNCHANGED <<mode, tree, props, walk, componentInfo>>
    /\ Frame({"extractor", "generator"})

NextEmit == ExtractComponent \/ EmitComponent

SpecEmit == InitEmit /\ [][NextEmit]_vars

\* ------------------------------------------------ extractor run, by call
InitWalk ==
    /\ mode = "walk"
    /\ pc = "walk"
    /\ IsInputGraph(tree, refs)
    /\ pending = <<WalkCall(0, TRUE)>>
    /\ props = <<>>
    /\ walk = <<>>
    /\ IdleExcept({"extractor", "walker"})

\* The call on top is made: its direct props are collected and the calls of
\* its flatMap come before the calls that were waiting.
Collected(call, directProps) ==
    /\ props' = props \o [i \in 1..Len(directProps) |-> ParsedProp(directProps[i])]
    /\ walk' = walk \o [i \in 1..Len(directProps) |-> directProps[i].symbol]
    /\ pending' = NestedCalls(refs, call, NestedOf(directProps)) \o Tail(pending)

\* One call of extractPropsFromType, while the stack has room: the depth the
\* engine allows is stood for by MaxEmitted props collected.
WalkStep ==
    /\ mode = "walk"
    /\ pc = "walk"
    /\ pending # <<>>
    /\ Len(props) < MaxEmitted
    /\ Collected(Head(pending), DirectPropsOf(tree, Head(pending)))
    /\ UNCHANGED <<mode, pc, tree, refs>>
    /\ Frame({"extractor", "walker"})

\* No call is left: extractPropsFromParameter returns.
WalkReturn ==
    /\ mode = "walk"
    /\ pc = "walk"
    /\ pending = <<>>
    /\ pc' = "done"
    /\ UNCHANGED <<mode, tree, props, walk, refs, pending>>
    /\ Frame({"extractor", "walker"})

\* Calls are left and the stack is exhausted: the engine's RangeError leaves
\* extractPropsFromParameter, which has no handler for it.
StackExhausted ==
    /\ mode = "walk"
    /\ pc = "walk"
    /\ pending # <<>>
    /\ Len(props) >= MaxEmitted
    /\ pc' = "thrown"
    /\ UNCHANGED <<mode, tree, props, walk, refs, pending>>
    /\ Frame({"extractor", "walker"})

NextWalk == WalkStep \/ WalkReturn \/ StackExhausted

SpecWalk == InitWalk /\ [][NextWalk]_vars

\* The calls are made one after the other on one thread: a call that can be
\* made is made.
FairWalk == SpecWalk /\ WF_vars(NextWalk)

\* ---------------------------------------------------------- locator run
InitParse ==
    /\ mode = "parse"
    /\ pc = "input"
    /\ IsInputUnit(unit)
    /\ calls = <<>>
    /\ components = NoComponents
    /\ IdleExcept({"locator"})

\* One call parseComponents(sourceFile).
Parse ==
    /\ mode = "parse"
    /\ pc = "input"
    /\ components' = parseComponents(unit)
    /\ calls' = CallsOf(unit)
    /\ pc' = "done"
    /\ UNCHANGED <<mode, unit>>
    /\ Frame({"locator"})

SpecParse == InitParse /\ [][Parse]_vars

\* -------------------------------------------------------- generator run
InitGenerate ==
    /\ mode = "generate"
    /\ pc = "input"
    /\ IsInputInfo(componentInfo)
    /\ validators = <<>>
    /\ text = <<>>
    /\ IdleExcept({"generator"})

\* One call generateComponentString(componentInfo).
Generate ==
    /\ mode = "generate"
    /\ pc = "input"
    /\ text' = generateComponentString(componentInfo)
    /\ validators' = ValidatorsOf(componentInfo)
    /\ pc' = "done"
    /\ UNCHANGED <<mode, componentInfo>>
    /\ Frame({"generator"})

SpecGenerate == InitGenerate /\ [][Generate]_vars

\* ----------------------------------------------------------- writer run
InitWrite ==
    /\ mode = "write"
    /\ pc = "input"
    /\ project \in InitialProjects
    /\ \E outDir \in OutDirs, inline \in BOOLEAN, prettier \in BOOLEAN :
           options = WriteOptions(outDir, inline, prettier)
    /\ writes = <<>>
    /\ IdleExcept({"writer"})

\* One call createSourceFile(componentInfo, project, options).
CreateSourceFile ==
    /\ mode = "write"
    /\ Len(writes) < MaxCalls
    /\ \E c \in 1..Len(WriterComponents), env \in Envs :
           /\ project' = createSourceFile(WriterComponents[c], project, options, env).project
           /\ writes' = Append(writes,
                               WriteOf(WriterComponents[c], env,
                                       createSourceFile(WriterComponents[c], project,
                                                        options, env)))
    /\ pc' = "done"
    /\ UNCHANGED <<mode, options>>
    /\ Frame({"writer"})

SpecWrite == InitWrite /\ [][CreateSourceFile]_vars

\* -------------------------------------------------------------- cli run
InitMain ==
    /\ mode = "cli"
    /\ pc = "loop"
    /\ \E n \in 0..MaxFiles :
           \E shapes \in [1..n -> 1..Len(CliShapes)] :
               /\ sourceFiles = [i \in 1..n |-> CliUnit(i, CliShapes[shapes[i]])]
               /\ project = [i \in 1..n |-> LoadedFile(CliPath(i))]
    /\ \E inline \in BOOLEAN : options = WriteOptions(<<>>, inline, FALSE)
    /\ writes = <<>>
    /\ fileIndex = 1
    /\ fileResults = <<>>
    /\ totalComponents = 0
    /\ totalGeneratedFiles = 0
    /\ exitCode = -1
    /\ IdleExcept({"writer", "cli"})

\* The loop's variables take the values of a MainState.
Becomes(ms) ==
    /\ fileResults' = ms.fileResults
    /\ totalComponents' = ms.totalComponents
    /\ totalGeneratedFiles' = ms.totalGeneratedFiles
    /\ project' = ms.project
    /\ writes' = ms.writes

\* One iteration of main's loop over sourceFiles.
ProcessFile ==
    /\ mode = "cli"
    /\ pc = "loop"
    /\ fileIndex <= Len(sourceFiles)
    /\ \E envs \in [1..Len(sourceFiles[fileIndex].exports) -> CliEnvs] :
           Becomes(LoopBody(MainState(fileResults, totalComponents,
                                      totalGeneratedFiles, project, writes),
                            processSourceFile(sourceFiles[fileIndex]),
                            options, envs))
    /\ fileIndex' = fileIndex + 1
    /\ UNCHANGED <<mode, pc, sourceFiles, options, exitCode>>
    /\ Frame({"writer", "cli"})

\* After the loop: project.save() and the summary, or the fatal error of a
\* save that is rejected.
Finish ==
    /\ mode = "cli"
    /\ pc = "loop"
    /\ fileIndex > Len(sourceFiles)
    /\ \E saveThrows \in BOOLEAN :
           /\ project' = (IF saveThrows THEN project ELSE SaveAll(project))
           /\ exitCode' = (IF saveThrows THEN 1 ELSE 0)
    /\ pc' = "done"
    /\ UNCHANGED <<mode, sourceFiles, fileIndex, fileResults, totalComponents,
                   totalGeneratedFiles, options, writes>>
    /\ Frame({"writer", "cli"})

SpecMain == InitMain /\ [][ProcessFile \/ Finish]_vars

\* -------------------------------------------------------- formatter run
InitFormat ==
    /\ mode = "format"
    /\ pc = "start"
    /\ \E n \in 0..MaxPaths :
           /\ filePaths = [i \in 1..n |-> FormatPath(i)]
           /\ \E prettier \in BOOLEAN, config \in ConfigOutcomes,
                 files \in [1..n -> FileOutcomes] :
                  fsEnv = FsEnv(prettier, config, files)
    /\ formatIndex = 1
    /\ results = <<>>
    /\ fsReads = <<>>
    /\ fsWrites = <<>>
    /\ formatted = NotReturned
    /\ IdleExcept({"formatter"})

\* formatWithPrettier up to its loop: the early returns for no path and for
\* a prettier that cannot be imported, and the outer catch for a
\* resolveConfig that throws.
StartFormat ==
    /\ mode = "format"
    /\ pc = "start"
    /\ IF Len(filePaths) = 0 \/ ~fsEnv.prettier \/ fsEnv.config = "thrown"
       THEN formatted' = Returned(<<>>) /\ pc' = "done"
       ELSE formatted' = formatted /\ pc' = "loop"
    /\ UNCHANGED <<mode, filePaths, fsEnv, formatIndex, results, fsReads, fsWrites>>
    /\ Frame({"formatter"})

\* The fs.writeFile calls after one more file.
WritesAfter(log, filePath, single) ==
    IF single.wrote THEN Append(log, filePath) ELSE log

\* One iteration of for (const filePath of filePaths).
FormatOne ==
    /\ mode = "format"
    /\ pc = "loop"
    /\ formatIndex <= Len(filePaths)
    /\ \E single \in {formatSingleFileWithPrettier(filePaths[formatIndex],
                                                   fsEnv.files[formatIndex])} :
           /\ results' = Append(results, single.result)
           /\ fsWrites' = WritesAfter(fsWrites, filePaths[formatIndex], single)
    /\ fsReads' = Append(fsReads, filePaths[formatIndex])
    /\ formatIndex' = formatIndex + 1
    /\ UNCHANGED <<mode, pc, filePaths, fsEnv, formatted>>
    /\ Frame({"formatter"})

\* After the loop: return the paths of the successful results.
ReturnFormatted ==
    /\ mode = "format"
    /\ pc = "loop"
    /\ formatIndex > Len(filePaths)
    /\ formatted' = Returned(SuccessfulPaths(results))
    /\ pc' = "done"
    /\ UNCHANGED <<mode, filePaths, fsEnv, formatIndex, results, fsReads, fsWrites>>
    /\ Frame({"formatter"})

SpecFormat == InitFormat /\ [][StartFormat \/ FormatOne \/ ReturnFormatted]_vars

WithoutUndefined(t) ==
    LET m == NonUndefined(t.unionTypes)
    IN  IF Len(m) = 1 THEN m[1]
        ELSE IF t.text = <<"Alias", " | ", "undefined">> THEN UnionOf(m, <<"Alias">>)
        ELSE UnionOf(m, PrintUnion(m))

IsOptionalOfSome(t) ==
    /\ t.isUnion
    /\ hasUndefinedType(t.unionTypes)
    /\ Len(NonUndefined(t.unionTypes)) >= 1

\* C2: for every T other than undefined, normalizePropType(T | undefined)
\* is the variant normalizePropType(T).
C2_OptionalAsBase ==
    (pc = "done" /\ IsOptionalOfSome(ty))
        => result = normalizePropType(WithoutUndefined(ty))

\* ---------------------------------------------------------------- C3
IsStringOrUndefined(t) ==
    /\ t.isUnion
    /\ Len(t.unionTypes) = 2
    /\ HasMember(t.unionTypes, TString)
    /\ HasMember(t.unionTypes, TUndefined)
    /\ t.text = <<"string", " | ", "undefined">>

AllMembers(t, P(_)) == \A i \in 1..Len(t.unionTypes) : P(t.unionTypes[i])
IsBooleanLiteral(m) == m = TTrue \/ m = TFalse
IsStringLit(m) == m.isStringLiteral
IsNumberLit(m) == m.isNumberLiteral

\* The value of a literal member as the claim reads it off the declaration.
DeclaredValue(m) ==
    IF m = TTrue THEN Val("boolean", "true", 0)
    ELSE IF m = TFalse THEN Val("boolean", "false", 0)
    ELSE m.literalValue

DeclaredValues(t) == [i \in 1..Len(t.unionTypes) |-> DeclaredValue(t.unionTypes[i])]

IsTrueFalseOrUndefined(t) ==
    /\ t.isUnion
    /\ Len(NonUndefined(t.unionTypes)) = 2
    /\ HasMember(t.unionTypes, TTrue)
    /\ HasMember(t.unionTypes, TFalse)

RECURSIVE PathTo(_, _)
\* The members from the root's member down to n, n included.
PathTo(tr, n) == IF n = 0 THEN <<>> ELSE Append(PathTo(tr, tr.parent[n]), n)

\* C6: every entry is required exactly when neither its member nor any
\* member it is nested in is flagged optional (required = member not optional
\* AND parent's required, the root's members having parentRequired = TRUE);
\* so no entry below an optional ancestor is required.
C6_RequiredPropagates ==
    pc = "done" =>
        \A i \in 1..Len(props) :
            LET path == PathTo(tree, walk[i])
            IN  /\ props[i].required =
                       (\A j \in 1..Len(path) : ~tree.optional[path[j]])
                /\ (\E j \in 1..(Len(path) - 1) : tree.optional[path[j]])
                       => ~props[i].required

\* A mandatory member two levels below an optional member is reported, and
\* not as required.
C6_Witness ==
    /\ pc = "done"
    /\ \E i \in 1..Len(props) :
           LET path == PathTo(tree, walk[i])
           IN  /\ Len(path) = 3
               /\ tree.optional[path[1]]
               /\ ~tree.optional[path[2]]
               /\ ~tree.optional[path[3]]
               /\ ~props[i].required

\* ---------------------------------------------------------------- C7
\* The member's type is a union of one member other than undefined, and undefined.
IsOptionalOfOne(t) ==
    /\ t.isUnion
    /\ Len(t.unionTypes) = 2
    /\ hasUndefinedType(t.unionTypes)
    /\ Len(NonUndefined(t.unionTypes)) = 1

\* C7: a member whose type is a union of one member other than undefined,
\* and undefined, is reported with that member's classification and with
\* required = FALSE.
C7_OptionalUnionCollapses ==
    pc = "done" =>
        \A i \in 1..Len(props) :
            LET t == KindType(tree.kind[walk[i]])
            IN  IsOptionalOfOne(t) =>
                    /\ props[i].type = normalizePropType(NonUndefined(t.unionTypes)[1])
                    /\ props[i].required = FALSE

\* ---------------------------------------------------------------- C8
UpperLetter(c) ==
    IF c \in {"a", "b", "c", "d", "n", "r", "u", "v"}
    THEN [x \in {"a", "b", "c", "d", "n", "r", "u", "v"} |->
             CASE x = "a" -> "A" [] x = "b" -> "B" [] x = "c" -> "C"
               [] x = "d" -> "D" [] x = "n" -> "N" [] x = "r" -> "R"
               [] x = "u" -> "U" [] x = "v" -> "V"][c]
    ELSE c

HasChar(str, c) == \E i \in 1..Len(str) : str[i] = c

\* name is the base name of path, extension removed, first character
\* upper-cased: path = dir stem ext, where dir is empty or ends with the
\* last "/", and ext is empty or starts at the last "." of the base name
\* (which is not its first character).
IsCapitalizedBaseName(name, path) ==
    \E a \in 0..Len(path) :
        \E b \in a..Len(path) :
            LET stem == SubSeq(path, a + 1, b)
                ext == SubSeq(path, b + 1, Len(path))
            IN  /\ a = 0 \/ path[a] = Slash
                /\ ~HasChar(stem, Slash) /\ ~HasChar(ext, Slash)
                /\ \/ ext = <<>> /\ ~HasChar(Tail(stem), Dot)
                   \/ /\ Len(ext) > 0
                      /\ ext[1] = Dot
                      /\ ~HasChar(Tail(ext), Dot)
                      /\ Len(stem) > 0
                /\ Len(name) = Len(stem)
                /\ \A i \in 1..Len(name) :
                       name[i] = IF i = 1 THEN UpperLetter(stem[1]) ELSE stem[i]

HasOwnName(d) == d.kind \in {"function", "class", "variable"} /\ d.name # <<>>

CardPath == <<"s", "r", "c", "/", "c", "a", "r", "d", ".", "t", "s", "x">>

\* C8: a non-default export keeps its export name; a default export takes
\* the own name of its function, class or variable declaration when it has
\* one, and otherwise the file's base name, extension removed, first
\* character upper-cased (Card for card.tsx).
C8_ComponentName ==
    pc = "done" =>
        \A i \in 1..Len(calls) :
            LET c == calls[i]
            IN  /\ c.exportName # DefaultName => c.componentName = c.exportName
                /\ (c.exportName = DefaultName /\ HasOwnName(c.declaration))
                       => c.componentName = c.declaration.name
                /\ (c.exportName = DefaultName /\ ~HasOwnName(c.declaration))
                       => /\ IsCapitalizedBaseName(c.componentName, unit.filePath)
                          /\ unit.filePath = CardPath
                                 => c.componentName = <<"C", "a", "r", "d">>
                /\ c.returned.tag = "info" => c.returned.name = c.componentName

\* A nameless default-exported function of src/card.tsx has been named Card.
C8_Witness ==
    /\ pc = "done"
    /\ unit.filePath = CardPath
    /\ \E i \in 1..Len(calls) :
           /\ calls[i].exportName = DefaultName
           /\ calls[i].declaration.kind = "function"
           /\ calls[i].declaration.name = <<>>
           /\ calls[i].returned.tag = "info"
           /\ calls[i].returned.name = <<"C", "a", "r", "d">>

\* ---------------------------------------------------------------- C9
\* The declarations the claim lists as yielding no ComponentInfo.
IsNotAComponent(d) ==
    \/ d.kind \in {"function", "arrow"} /\ d.parameters = 0
    \/ d.kind = "class" /\ d.typeParameters \in {"none", "unconstrained"}
    \/ d.kind = "variable" /\ d.initializer # "arrow"
    \/ d.kind \notin {"function", "arrow", "variable", "class"}

\* C9: parseComponentDeclaration returns null, and throws nothing, for a
\* function or arrow function without parameters, a class without a type
\* parameter or whose first type parameter has no constraint, a variable
\* whose initializer is not an arrow function, and any other declaration.
C9_NotAComponentIsNull ==
    pc = "done" =>
        \A i \in 1..Len(calls) :
            IsNotAComponent(calls[i].declaration) => calls[i].returned = NullInfo

\* A parameterless function and a class with an unconstrained type
\* parameter have both been parsed to null.
C9_Witness ==
    /\ pc = "done"
    /\ \E i, j \in 1..Len(calls) :
           /\ calls[i].declaration.kind = "function"
           /\ calls[i].declaration.parameters = 0
           /\ calls[i].returned = NullInfo
           /\ calls[j].declaration.kind = "class"
           /\ calls[j].declaration.typeParameters = "unconstrained"
           /\ calls[j].returned = NullInfo

\* ---------------------------------------------------------------- C10
\* The ComponentInfo values the calls returned, in call order.
Recognized == SelectSeq(calls, LAMBDA c : c.returned.tag = "info")

\* C10: what parseComponents returns holds one ComponentInfo for each
\* exported declaration recognized as a component and nothing for the
\* others, in the order of the export entries and of the declarations of
\* each entry; without a recognized declaration it is the empty sequence.
C10_OnePerRecognizedInOrder ==
    (pc = "done" /\ ~components.error) =>
        /\ Len(calls) = Len(FlatDeclarations(unit.exports))
        /\ Len(components.list) = Len(Recognized)
        /\ \A i \in 1..Len(Recognized) : components.list[i] = Recognized[i].returned
        /\ (\A i \in 1..Len(calls) : calls[i].returned = NullInfo)
               => components.list = <<>>

\* Of two exported declarations the first is no component and the second
\* is: the result holds the second alone.
C10_Witness ==
    /\ pc = "done"
    /\ ~components.error
    /\ Len(calls) = 2
    /\ calls[1].returned = NullInfo
    /\ calls[2].returned.tag = "info"
    /\ components.list = <<calls[2].returned>>

\* ---------------------------------------------------------------- C11
\* The text of a oneOf value: a string between single quotes, a number or a
\* boolean as it is written in source.
ValueLiteral(v) ==
    IF v.k = "string" THEN <<"'", v.s, "'">>
    ELSE IF v = NumVal(1) THEN <<"1">>
    ELSE IF v = NumVal(20) THEN <<"2", "0">>
    ELSE IF v = NumVal(-3) THEN <<"-", "3">>
    ELSE IF v = BoolVal(TRUE) THEN <<"true">>
    ELSE IF v = BoolVal(FALSE) THEN <<"false">>
    ELSE <<"?">>

RECURSIVE CommaSeparated(_)
CommaSeparated(items) ==
    IF Len(items) = 0 THEN <<>>
    ELSE IF Len(items) = 1 THEN items[1]
    ELSE items[1] \o <<", ">> \o CommaSeparated(Tail(items))

RECURSIVE Rendering(_)
\* The rendering of a NormalizedPropType.
Rendering(t) ==
    IF t.kind = "primitive"
    THEN (IF t.name = "string" THEN <<"PropTypes.", "string">>
          ELSE IF t.name = "number" THEN <<"PropTypes.", "number">>
          ELSE <<"PropTypes.", "bool">>)
    ELSE IF t.kind = "array" THEN <<"PropTypes.", "array">>
    ELSE IF t.kind = "object" THEN <<"PropTypes.", "object">>
    ELSE IF t.kind = "function" THEN <<"PropTypes.", "func">>
    ELSE IF t.kind = "any" THEN <<"PropTypes.", "any">>
    ELSE IF t.kind = "oneOf"
    THEN <<"PropTypes.", "oneOf", "([">>
         \o CommaSeparated([i \in 1..Len(t.values) |-> ValueLiteral(t.values[i])])
         \o <<"])">>
    ELSE <<"PropTypes.", "oneOfType", "([">>
         \o CommaSeparated([i \in 1..Len(t.types) |-> Rendering(t.types[i])])
         \o <<"])">>

\* C11: the validator expression of every prop is the rendering of its type,
\* followed by .isRequired exactly when the prop is required; the suffix
\* appears nowhere else in the expression (no member of a oneOfType carries
\* it).
C11_ValidatorIsRendering ==
    (mode = "generate" /\ pc = "done") =>
        /\ Len(validators) = Len(componentInfo.props)
        /\ \A i \in 1..Len(componentInfo.props) :
               LET prop == componentInfo.props[i]
                   suffixAt == {j \in 1..Len(validators[i]) :
                                   validators[i][j] = ".isRequired"}
               IN  /\ validators[i] =
                          Rendering(prop.type)
                          \o (IF prop.required THEN <<".isRequired">> ELSE <<>>)
                   /\ suffixAt = (IF prop.required THEN {Len(validators[i])} ELSE {})

\* A required prop of a nested oneOfType beside an optional prop of a oneOf
\* of mixed values has been rendered.
C11_Witness ==
    /\ mode = "generate"
    /\ pc = "done"
    /\ Len(componentInfo.props) = 2
    /\ componentInfo.props[1].required
    /\ componentInfo.props[1].type =
           OneOfType(<<Primitive("string"), OneOfType(<<ArrayT, Primitive("boolean")>>)>>)
    /\ ~componentInfo.props[2].required
    /\ componentInfo.props[2].type = OneOf(<<NumVal(1), StrVal("default"), BoolVal(TRUE)>>)
    /\ validators[1] =
           <<"PropTypes.", "oneOfType", "([", "PropTypes.", "string", ", ",
             "PropTypes.", "oneOfType", "([", "PropTypes.", "array", ", ",
             "PropTypes.", "bool", "])", "])", ".isRequired">>
    /\ validators[2] =
           <<"PropTypes.", "oneOf", "([", "1", ", ", "'", "default", "'", ", ",
             "true", "])">>

\* ---------------------------------------------------------------- C12
RECURSIVE LinesOf(_, _)
\* One line "  <propName>: <expression>," per prop, a line break between two.
LinesOf(ps, exprs) ==
    IF Len(ps) = 0 THEN <<>>
    ELSE <<"  ", ps[1].name, ": ">> \o exprs[1] \o <<",">>
         \o (IF Len(ps) = 1 THEN <<>> ELSE <<"\n">> \o LinesOf(Tail(ps), Tail(exprs)))

\* C12: the output is "<name>.propTypes = {", a line break, one line per prop
\* in the order of componentInfo.props, a line break and "};"; with no props
\* the body is one empty line.
C12_BlockShape ==
    (mode = "generate" /\ pc = "done") =>
        /\ text = componentInfo.name \o <<".propTypes = {", "\n">>
                  \o LinesOf(componentInfo.props, validators)
                  \o <<"\n", "};">>
        /\ Len(componentInfo.props) = 0 =>
               text = componentInfo.name \o <<".propTypes = {", "\n", "\n", "};">>

\* A component of two props has been generated, the first prop first.
C12_Witness ==
    /\ mode = "generate"
    /\ pc = "done"
    /\ componentInfo.name = <<"B", "t", "n">>
    /\ Len(componentInfo.props) = 2
    /\ componentInfo.props[1].type = Primitive("string")
    /\ componentInfo.props[1].required
    /\ componentInfo.props[2].type = FunctionT
    /\ ~componentInfo.props[2].required
    /\ text = <<"B", "t", "n", ".propTypes = {", "\n",
                "  ", "a", ": ", "PropTypes.", "string", ".isRequired", ",", "\n",
                "  ", "b", ": ", "PropTypes.", "func", ",", "\n", "};">>

\* ---------------------------------------------------------------- C13
RECURSIVE SumOfCounts(_)
\* The components of the files processed so far, as their results count them.
SumOfCounts(frs) ==
    IF Len(frs) = 0 THEN 0
    ELSE frs[1].componentCount + SumOfCounts(Tail(frs))

SuccessfulWrites == Cardinality({k \in 1..Len(writes) : writes[k].result.success})

\* Some createSourceFile call was made for the component.
WasWritten(ci) == \E k \in 1..Len(writes) : writes[k].componentInfo = ci

\* The result of a file is that of its own discovery alone: failed and
\* without any output when parseComponents threw; otherwise successful with
\* the components found, each one with props handed to the writer.
OwnResult(r, parsed, path) ==
    IF parsed.error
    THEN /\ r = FileProcessingResult(path, 0, FALSE, <<>>, "error")
         /\ \A k \in 1..Len(writes) : writes[k].componentInfo.sourceFilePath # path
    ELSE /\ r = FileProcessingResult(path, Len(parsed.list), TRUE, parsed.list, "")
         /\ \A k \in 1..Len(parsed.list) :
                Len(parsed.list[k].props) > 0 => WasWritten(parsed.list[k])

\* C13: a discovery failure on one source file gives a failed result for that
\* file only. The loop goes on over every file; each file, before or after a
\* failed one, has the result of its own discovery and its components are
\* emitted; the two tallies are the sums over the files processed, so a
\* failure changes neither.
C13_FailureScopedToFile ==
    mode = "cli" =>
        /\ Len(fileResults) = fileIndex - 1
        /\ \A j \in 1..Len(fileResults) :
               OwnResult(fileResults[j], parseComponents(sourceFiles[j]),
                         sourceFiles[j].filePath)
        /\ totalComponents = SumOfCounts(fileResults)
        /\ totalGeneratedFiles = SuccessfulWrites
        /\ pc = "done" => Len(fileResults) = Len(sourceFiles)

\* main has finished; the first file failed, the second was parsed and its
\* two components emitted.
C13_Witness ==
    /\ mode = "cli"
    /\ pc = "done"
    /\ Len(fileResults) = 2
    /\ ~fileResults[1].success
    /\ fileResults[2].success
    /\ totalComponents = 2
    /\ totalGeneratedFiles = 2
    /\ \A k \in 1..Len(writes) : writes[k].componentInfo.sourceFilePath = CliPath(2)

\* ---------------------------------------------------------------- C14
\* The declaration is a component when looked at alone.
IsComponentAlone(returned) == returned.tag = "info"

\* A component of the unit is discovered, and emitted when it has props.
Survives(returned, r) ==
    IsComponentAlone(returned) =>
        /\ \E k \in 1..Len(r.components) : r.components[k] = returned
        /\ Len(returned.props) > 0 => WasWritten(returned)

\* C14: every declaration of a processed unit that is a component on its own
\* is discovered and emitted, whatever happened to its siblings during
\* discovery or writing.
C14_SiblingsSurvive ==
    mode = "cli" =>
        \A j \in 1..Len(fileResults) :
            \A e \in 1..Len(sourceFiles[j].exports) :
                Survives(parseComponentDeclaration(sourceFiles[j].exports[e].name,
                                                   sourceFiles[j].exports[e].declarations[1],
                                                   sourceFiles[j].filePath),
                         fileResults[j])

\* ---------------------------------------------------------------- C15
\* Every unit of the Project that is not as it was loaded is the target of a
\* createSourceFile call.
OnlyWritesTouch ==
    \A i \in 1..Len(project) :
        project[i] # LoadedFile(project[i].path) =>
            \E k \in 1..Len(writes) :
                resolveOutputPath(writes[k].componentInfo, options) = project[i].path

\* C15: a component without props is counted as discovered (the file's
\* count is the number of its components, with or without props, and the
\* total is the sum), but createSourceFile is never called for it, no unit is
\* created or modified but by the calls made, and the generated tally counts
\* the successful calls only.
C15_ZeroPropsSkippedButCounted ==
    mode = "cli" =>
        /\ \A j \in 1..Len(fileResults) :
               fileResults[j].success =>
                   fileResults[j].componentCount = Len(fileResults[j].components)
        /\ totalComponents = SumOfCounts(fileResults)
        /\ \A k \in 1..Len(writes) : Len(writes[k].componentInfo.props) > 0
        /\ OnlyWritesTouch
        /\ totalGeneratedFiles = SuccessfulWrites

\* main has finished over one file of a component with props and one
\* without: two discovered, one generated, one call made.
C15_Witness ==
    /\ mode = "cli"
    /\ pc = "done"
    /\ Len(fileResults) = 1
    /\ fileResults[1].success
    /\ Len(fileResults[1].components) = 2
    /\ Len(fileResults[1].components[1].props) > 0
    /\ Len(fileResults[1].components[2].props) = 0
    /\ totalComponents = 2
    /\ totalGeneratedFiles = 1
    /\ Len(writes) = 1

\* ---------------------------------------------------------------- C16
HasTsExtension(p) == EndsWith(p, TsExt) \/ EndsWith(p, TsxExt)

\* The source path without its .ts / .tsx extension.
Stem(p) ==
    IF EndsWith(p, TsxExt) THEN SubSeq(p, 1, Len(p) - 4) ELSE SubSeq(p, 1, Len(p) - 3)

\* The path of the file called name in the directory dir.
InDirectory(dir, name) ==
    (IF dir[Len(dir)] = "/" THEN SubSeq(dir, 1, Len(dir) - 1) ELSE dir)
    \o <<"/">> \o name

\* Where the claim places the output of a component of a .ts/.tsx source.
ExpectedTarget(ci, o) ==
    LET src == ci.sourceFilePath
    IN  IF o.inline THEN src
        ELSE IF o.outDir # <<>>
        THEN InDirectory(o.outDir,
                         SubSeq(Stem(src), BaseStart(src), Len(Stem(src)))
                         \o PropTypesExt)
        ELSE Stem(src) \o PropTypesExt

\* The call just made: the last entry of writes after a step that added one.
IsNewWrite == mode = "write" /\ Len(writes') = Len(writes) + 1

FirstPaths(paths, n) == [i \in 1..n |-> paths[i]]

\* The paths among the first n whose file meets a condition on its fate, in
\* input order.
RECURSIVE PathsWhere(_, _, _, _)
PathsWhere(paths, files, n, fates) ==
    IF n = 0 THEN <<>>
    ELSE IF files[n] \in fates
         THEN Append(PathsWhere(paths, files, n - 1, fates), paths[n])
         ELSE PathsWhere(paths, files, n - 1, fates)

\* C17: formatWithPrettier reads the files one after another in input
\* order; a file whose read or format fails is never written and does not
\* stop the files after it; the call never throws, and it returns exactly
\* the paths read, formatted and written back successfully, in input order;
\* with no path it returns [] without a read or a write.
C17_FormatsEachFileInTurn ==
    mode = "format" =>
        /\ fsReads = FirstPaths(filePaths, Len(fsReads))
        /\ fsWrites = PathsWhere(filePaths, fsEnv.files, Len(fsReads), {"ok", "write"})
        /\ ~formatted.thrown
        /\ (pc = "done") = formatted.returned
        /\ pc = "done" =>
               /\ fsReads # <<>> => fsReads = filePaths
               /\ formatted.paths =
                      PathsWhere(filePaths, fsEnv.files, Len(fsReads), {"ok"})
        /\ filePaths = <<>> => fsReads = <<>> /\ fsWrites = <<>>

\* A call with two paths has returned: the first file could not be
\* formatted, the second was formatted and is the only path returned.
C17_Witness ==
    /\ mode = "format"
    /\ pc = "done"
    /\ Len(filePaths) = 2
    /\ fsEnv.files[1] = "format"
    /\ fsEnv.files[2] = "ok"
    /\ fsReads = filePaths
    /\ fsWrites = <<filePaths[2]>>
    /\ formatted.paths = <<filePaths[2]>>

\* ---------------------------------------------------------------- C18
\* The recursion enters the type of a member that passes the filter.
Recursed(tr, c) == KindType(tr.kind[c]).isObject /\ ~KindType(tr.kind[c]).isArray

\* The types the recursion enters from the type of node a.
Entered(tr, rf, a) ==
    {Target(rf, c) : c \in {m \in Nodes(tr) : tr.parent[m] = a /\ Recursed(tr, m)}}

\* The types entered from a set of types in at most k further steps.
RECURSIVE Grow(_, _, _, _)
Grow(tr, rf, types, k) ==
    IF k = 0 THEN types
    ELSE Grow(tr, rf, types \cup UNION {Entered(tr, rf, t) : t \in types}, k - 1)

Below(tr, rf, t) == Grow(tr, rf, Entered(tr, rf, t), Len(tr.parent))

\* No type reachable from the root type through object-typed members is
\* reachable from itself.
Acyclic(tr, rf) ==
    \A t \in {0} \cup Below(tr, rf, 0) : t \notin Below(tr, rf, t)

\* No member names a type again.
NoRefs(rf) == \A n \in 1..Len(rf) : rf[n] = NoRef

\* What a walk that returned has collected.
WalkResultIsClosure ==
    (mode = "walk" /\ pc = "done") =>
        /\ NoRefs(refs) => props = extractPropsFromParameter(tree) /\ walk = WalkOf(tree)
        /\ Properties(tree, 0) = <<>> => props = <<>>

\* C18: on a finite member graph without a cycle through object-typed
\* members the calls of extractPropsFromParameter come to an end and it
\* returns (for a graph without shared types, the sequence the recursion
\* defines); a root type without members gives the empty sequence.
C18_AcyclicWalkReturns ==
    /\ []WalkResultIsClosure
    /\ (mode = "walk" /\ Acyclic(tree, refs)) ~> (pc = "done")

\* A walk over a root with an object member that has a member of its own
\* has returned both members, the nested one last.
C18_Witness ==
    /\ mode = "walk"
    /\ pc = "done"
    /\ Acyclic(tree, refs)
    /\ tree.parent = <<0, 1>>
    /\ walk = <<1, 2>>
    /\ Len(props) = 2

\* ---------------------------------------------------------------- C19
\* A union of two or more members beside undefined, not all of them literals.
IsMixedUnion(t) ==
    /\ t.isUnion
    /\ Len(NonUndefined(t.unionTypes)) >= 2
    /\ \E i \in 1..Len(t.unionTypes) :
           ~t.unionTypes[i].isUndefined /\ ~t.unionTypes[i].isLiteral

\* The classifications of the members other than undefined, in member order.
MemberClassifications(t) ==
    LET members == NonUndefined(t.unionTypes)
    IN  [i \in 1..Len(members) |-> normalizePropType(members[i])]

\* C19: a union of two or more members beside undefined, not all literals,
\* is classified oneOfType of the classifications of those members in member
\* order, undefined left out and the list not empty.
C19_MixedUnionIsOneOfType ==
    (pc = "done" /\ IsMixedUnion(ty))
        => /\ result = OneOfType(MemberClassifications(ty))
           /\ result.types # <<>>

\* ---------------------------------------------------------------- C20
\* A type none of the rules before the call-signature rule matches, with a
\* call signature.
IsCallableBeyondEarlierRules(t) ==
    /\ t.text \notin {<<"string">>, <<"number">>, <<"boolean">>}
    /\ ~t.isUnion
    /\ ~t.isArray
    /\ ~t.isTuple
    /\ t.callSignatures >= 1

\* C20: a type with a call signature that is not a primitive by its text,
\* not a union and not an array or tuple is classified function, whatever
\* its text contains.
C20_CallableIsFunction ==
    (pc = "done" /\ IsCallableBeyondEarlierRules(ty)) => result = FunctionT

\* ---------------------------------------------------------------- C21
\* The position of member n in a walk, 0 when it was not collected.
PositionOf(w, n) ==
    IF \E i \in 1..Len(w) : w[i] = n
    THEN CHOOSE i \in 1..Len(w) : w[i] = n
    ELSE 0

\* The members of member n's own type, as a set.
MembersOf(tr, n) == {c \in Nodes(tr) : tr.parent[c] = n}

\* A walk over a graph in which no member names a type again has returned.
ReturnedPlainWalk == mode = "walk" /\ pc = "done" /\ NoRefs(refs)

\* C21: a collected member is recursed into exactly when it is classified
\* object: then each of its own members is collected, required when it is
\* not optional and the member is required; otherwise none of its own
\* members is collected.
C21_RecursesExactlyIntoObjects ==
    ReturnedPlainWalk =>
        \A i \in 1..Len(walk) :
            IF props[i].type = ObjectT
            THEN \A c \in MembersOf(tree, walk[i]) :
                     /\ PositionOf(walk, c) # 0
                     /\ props[PositionOf(walk, c)].required =
                            (~tree.optional[c] /\ props[i].required)
            ELSE \A c \in MembersOf(tree, walk[i]) : PositionOf(walk, c) = 0

\* ---------------------------------------------------------------- C22
\* C22: the result is flat; the entry of a member of a member's type comes
\* after the entry of that member, and the entries of the direct members of
\* one type are in that type's member order.
C22_NestedAfterContainer ==
    (mode = "extract" /\ pc = "done") =>
        /\ \A i \in 1..Len(walk) :
               tree.parent[walk[i]] # 0 =>
                   \E j \in 1..(i - 1) : walk[j] = tree.parent[walk[i]]
        /\ \A i, j \in 1..Len(walk) :
               (tree.parent[walk[i]] = tree.parent[walk[j]] /\ walk[i] < walk[j])
                   => i < j

\* Two members of the root, the first an object with a member of its own:
\* all three are reported.
C22_Witness ==
    /\ mode = "extract"
    /\ pc = "done"
    /\ tree.parent = <<0, 0, 1>>
    /\ tree.kind[1] = "object"
    /\ Len(props) = 3

\* ---------------------------------------------------------------- C29
\* Member x is member a or below it.
AtOrBelow(tr, x, a) == \E k \in 1..Len(PathTo(tr, x)) : PathTo(tr, x)[k] = a

\* C29: the direct members of one type are reported next to each other, in
\* member order, before anything below one of them; what is below an
\* earlier member comes before what is below a later one.
C29_DirectMembersBeforeNested ==
    (mode = "extract" /\ pc = "done") =>
        \A i, j \in 1..Len(walk) :
            /\ (/\ tree.parent[walk[i]] = tree.parent[walk[j]]
                /\ walk[i] < walk[j]
                /\ ~\E m \in Nodes(tree) :
                       /\ tree.parent[m] = tree.parent[walk[i]]
                       /\ walk[i] < m
                       /\ m < walk[j])
                   => j = i + 1
            /\ (\E a, b \in Nodes(tree) :
                    /\ tree.parent[a] = tree.parent[b]
                    /\ a # b
                    /\ AtOrBelow(tree, walk[i], a)
                    /\ walk[i] # a
                    /\ walk[j] = b)
                   => j < i
            /\ (\E a, b \in Nodes(tree) :
                    /\ tree.parent[a] = tree.parent[b]
                    /\ a < b
                    /\ AtOrBelow(tree, walk[i], a)
                    /\ walk[i] # a
                    /\ AtOrBelow(tree, walk[j], b)
                    /\ walk[j] # b)
                   => i < j

\* An object member with a member of its own and a later sibling: the
\* sibling is reported before the nested member.
C29_Witness ==
    /\ mode = "extract"
    /\ pc = "done"
    /\ tree.parent = <<0, 1, 0>>
    /\ walk = <<1, 3, 2>>

\* ---------------------------------------------------------------- C24
\* C24: nothing bounds the depth of the recursion or remembers the types
\* met: when a type reachable from the root through object-typed members is
\* reachable from itself, extractPropsFromParameter never returns a result.
C24_CyclicWalkNeverReturns ==
    (mode = "walk" /\ ~Acyclic(tree, refs)) => pc # "done"

\* The only member of the root has the root's type again: the calls went on
\* until the stack was exhausted.
C24_Witness ==
    /\ mode = "walk"
    /\ pc = "thrown"
    /\ tree.kind = <<"object">>
    /\ refs = <<0>>
    /\ Len(props) = MaxEmitted

\* ---------------------------------------------------------------- C23
\* C23: at every level of the logger a call of normalizePropType writes
\* nothing to the console, and its result is the classification of the type
\* alone.
C23_ClassifierIsSilent ==
    (mode = "classify" /\ pc = "done")
        => logged = <<>> /\ result = normalizePropType(ty)

\* ---------------------------------------------------------------- C25
\* Every call made so far reported success.
AllSucceeded == \A i \in 1..Len(writes) : writes[i].result.success

\* The last call that reported the path of call i.
IsLastFor(i) ==
    \A j \in (i + 1)..Len(writes) : writes[j].result.filePath # writes[i].result.filePath

\* C25: not inline, the output unit is created empty on every call: after
\* calls that all succeeded, a unit that was the output of several of them
\* holds the import and the block of the last of them alone.
C25_LastBlockOnly ==
    (mode = "write" /\ ~options.inline /\ AllSucceeded) =>
        \A i \in 1..Len(writes) :
            IsLastFor(i) =>
                LET at == FileIndex(project, writes[i].result.filePath)
                IN  /\ at # 0
                    /\ project[at].imports = 1
                    /\ project[at].statements =
                           <<generateComponentString(writes[i].componentInfo)>>

\* Btn and Nav of src/Btn.tsx were both written with success: the unit
\* src/Btn.propTypes.ts holds the block of Nav only.
C25_Witness ==
    /\ mode = "write"
    /\ ~options.inline
    /\ options.outDir = <<>>
    /\ Len(writes) = 2
    /\ AllSucceeded
    /\ writes[1].componentInfo = WriterComponents[1]
    /\ writes[2].componentInfo = WriterComponents[2]
    /\ writes[1].result.filePath = writes[2].result.filePath
    /\ project[FileIndex(project, writes[2].result.filePath)].statements =
           <<generateComponentString(WriterComponents[2])>>

\* ---------------------------------------------------------------- C26
\* The blocks of the successful calls on the source unit p, in call order.
RECURSIVE BlocksOfSuccessfulCalls(_, _)
BlocksOfSuccessfulCalls(log, p) ==
    IF Len(log) = 0 THEN <<>>
    ELSE LET w == log[Len(log)]
             before == BlocksOfSuccessfulCalls(SubSeq(log, 1, Len(log) - 1), p)
         IN  IF w.result.success /\ w.componentInfo.sourceFilePath = p
             THEN Append(before, generateComponentString(w.componentInfo))
             ELSE before

\* C26: inline, a source unit holds one appended block per successful call
\* on it, in call order, and one prop-types import once a call succeeded.
C26_OneBlockPerSuccessfulCall ==
    (mode = "write" /\ options.inline) =>
        \A f \in 1..Len(project) :
            /\ project[f].statements = BlocksOfSuccessfulCalls(writes, project[f].path)
            /\ project[f].statements # <<>> => project[f].imports = 1

\* ---------------------------------------------------------------- C27
\* outDir names the directory the source file is in.
IsOwnDirectory(dir, src) ==
    dir # <<>> /\ InDirectory(dir, SubSeq(src, BaseStart(src), Len(src))) = src

C28_FailuresAreReturned ==
    [][IsNewWrite =>
        LET w == writes'[Len(writes')]
            ci == w.componentInfo
            goesThrough ==
                /\ Len(ci.props) > 0
                /\ ~w.env.saveThrows
                /\ options.inline => FileIndex(project, ci.sourceFilePath) # 0
        IN  /\ w.result.success = goesThrough
            /\ w.result.success =>
                   /\ w.result.error = ""
                   /\ FileIndex(project', w.result.filePath) # 0
                   /\ HasTsExtension(ci.sourceFilePath) =>
                          w.result.filePath = ExpectedTarget(ci, options)
            /\ ~w.result.success =>
                   /\ w.result.filePath = ci.sourceFilePath
                   /\ w.result.error # ""
            /\ Len(ci.props) = 0 =>
                   /\ w.result.error = "Component has no props"
                   /\ project' = project]_vars

\* A call with the prettier option succeeded although the formatter failed,
\* and a call for the component without props failed.
C28_Witness ==
    /\ mode = "write"
    /\ options.prettier
    /\ Len(writes) = 2
    /\ writes[1].result.success
    /\ ~writes[1].env.formatOk
    /\ ~project[FileIndex(project, writes[1].result.filePath)].formatted
    /\ writes[2].result =
           FileCreationResult(FALSE, BtnTsx, "Component has no props")

\* C30: nested members are reported under their bare member name, so an
\* extractor result may hold several entries of one name (a nested member
\* named like a top-level member, or like a member of another nested object);
\* generateComponentString emits one line per entry, in order, keyed by that
\* bare name, so the block repeats keys and carries nested members as
\* top-level keys.
C30_BareNamesOneLinePerEntry ==
    (mode = "emit" /\ pc = "done") =>
        /\ Len(props) = Len(walk)
        /\ \A i \in 1..Len(props) : props[i].name = NameOf(tree, walk[i])
        /\ componentInfo.props = props
        /\ Len(validators) = Len(props)
        /\ text = EmittedName \o <<".propTypes = {", "\n">>
                      \o LinesOf(props, validators) \o <<"\n", "};">>
        /\ \A i, j \in 1..Len(props) :
              (i # j /\ NameOf(tree, walk[i]) = NameOf(tree, walk[j]))
                  => /\ props[i].name = props[j].name
                     /\ walk[i] # walk[j]

\* A top-level object member "a" with one nested member "a": two entries and
\* two lines with the key "a".
C30_Witness ==
    /\ mode = "emit"
    /\ pc = "done"
    /\ tree.parent = <<0, 1>>
    /\ tree.kind = <<"object", "number">>
    /\ Len(props) = 2
    /\ props[1].name = "a"
    /\ props[2].name = "a"
    /\ text = EmittedName \o <<".propTypes = {", "\n">>
                  \o <<"  ", "a", ": ">> \o validators[1] \o <<",", "\n">>
                  \o <<"  ", "a", ": ">> \o validators[2] \o <<",">>
                  \o <<"\n", "};">>

====
